---- MODULE Spec2Model ----
(***************************************************************************)
(* A model of the data dictionary cache and validator:                     *)
(*   - TermsCache (src/library/TermsCache.js, second class of the file),   *)
(*   - Validator  (src/unnamed/part_005, second class of the file),        *)
(*   - ValidationReport / ValidationStatus (src/scripts/teardown.js).      *)
(*                                                                         *)
(* JavaScript values are tagged records (field t is the type tag); JS      *)
(* objects whose property names matter (term records, data sections,       *)
(* report slots) are functions from property names to values, so that      *)
(* hasOwnProperty is membership in DOMAIN.                                  *)
(***************************************************************************)
EXTENDS Integers, Sequences, FiniteSets, TLC

VARIABLES
    cache,      \* TermsCache.cache (static): [isNull, map]
    insts,      \* the TermsCache instances constructed so far
    batch,      \* batch[i]: the batch member of instance i
    lastCall,   \* the last getTerm call: arguments, result, state before it
    hist,       \* hist[id]: what the getTerm calls for id did so far
    v,          \* the Validator instance under observation
    inflight    \* inflight[i]: where the getTerm call of instance i stands

vars == <<cache, insts, batch, lastCall, hist, v, inflight>>

-----------------------------------------------------------------------------
(* Bounds of the model.                                                    *)

NumInst == 2

-----------------------------------------------------------------------------
(* module.context.configuration (manifest defaults, src/unnamed/part_006)  *)

collectionTerm       == "terms"
sectionCode          == "_code"
sectionData          == "_data"
sectionRule          == "_rule"
sectionPath          == "_path"
sectionScalar        == "_scalar"
sectionArray         == "_array"
sectionSet           == "_set"
sectionDict          == "_dict"
predicate            == "_predicate"
predicateEnumeration == "_predicate_enum-of"
localIdentifier      == "_lid"
scalarType           == "_type"
typeBoolean          == "_type_boolean"
typeInteger          == "_type_integer"
typeNumber           == "_type_number"
typeTypestamp        == "_type_number_timestamp"
typeString           == "_type_string"
typeKey              == "_type_string_key"
typeHandle           == "_type_string_handle"
typeEnum             == "_type_string_enum"
typeDate             == "_type_string_date"
typeStruct           == "_type_struct"
typeObject           == "_type_object"
typeGeoJSON          == "_type_object_geojson"
rangeNumber             == "_valid-range"
rangeNumberMinInclusive == "_min-range-inclusive"
rangeNumberMaxInclusive == "_max-range-inclusive"
rangeNumberMinExclusive == "_min-range-exclusive"
rangeNumberMaxExclusive == "_max-range-exclusive"
dataKind             == "_kind"
rangeString             == "_valid-range_string"
rangeStringMinInclusive == "_min-range-inclusive_string"
rangeStringMaxInclusive == "_max-range-inclusive_string"
rangeStringMinExclusive == "_min-range-exclusive_string"
rangeStringMaxExclusive == "_max-range-exclusive_string"
regularExpression    == "_regexp"
anyTerm              == "_any-term"
anyEnum              == "_any-enum"
anyDescriptor        == "_any-descriptor"
anyObject            == "_any-object"
namespaceIdentifier  == "_nid"

-----------------------------------------------------------------------------
(* JavaScript values.                                                      *)

JUndef      == [t |-> "undefined"]
JNull       == [t |-> "null"]
JBool(b)    == [t |-> "boolean", b |-> b]
JFalse      == JBool(FALSE)
JTrue       == JBool(TRUE)
JInt(n)     == [t |-> "number", n |-> n]
JStr(s)     == [t |-> "string", s |-> s]
JArr(e)     == [t |-> "array", e |-> e]
\* A plain object: k is Object.keys() (insertion order), p maps key to value.
JObj(k, p)  == [t |-> "object", k |-> k, p |-> p]

EmptyMap    == [x \in {} |-> x]

\* obj[name] = value on a property map.
Put(m, name, val) == [x \in DOMAIN m \cup {name} |-> IF x = name THEN val ELSE m[x]]

\* AQL KEEP(doc, names...)
Keep(doc, names) == [x \in DOMAIN doc \cap names |-> doc[x]]

\* AQL MERGE(a, b): the attributes of b win.
Merge(a, b) == [x \in DOMAIN a \cup DOMAIN b |-> IF x \in DOMAIN b THEN b[x] ELSE a[x]]

\* A document handle "collection/key"; PARSE_IDENTIFIER(h).key is h.key.
Handle(coll, key) == [coll |-> coll, key |-> key]

-----------------------------------------------------------------------------
(* The dictionary store: an unchanging content of the terms and edges      *)
(* collections.  Stored term documents carry the code section (and other   *)
(* top level properties) next to the data and rule sections.               *)

IntegerRangeSection ==
    (sectionScalar :>
        ( (scalarType :> typeInteger) @@
          (rangeNumber :> JObj(<<rangeNumberMinInclusive, rangeNumberMaxInclusive>>,
                               (rangeNumberMinInclusive :> 0) @@
                               (rangeNumberMaxInclusive :> 10))) ))

TimestampSection == (sectionScalar :> (scalarType :> typeTypestamp))

BooleanSection == (sectionScalar :> (scalarType :> typeBoolean))

\* A scalar data section that declares no type.
TypelessSection == (sectionScalar :> EmptyMap)

\* A string of lower case letters between "b" and "d".
StringSection ==
    (sectionScalar :>
        ( (scalarType :> typeString) @@
          (regularExpression :> "^[a-z]+$") @@
          (rangeString :> JObj(<<rangeStringMinInclusive, rangeStringMaxInclusive>>,
                               (rangeStringMinInclusive :> "b") @@
                               (rangeStringMaxInclusive :> "d"))) ))

\* An enumeration of colors or, failing that, of shades.
EnumSection ==
    (sectionScalar :>
        ( (scalarType :> typeEnum) @@
          (dataKind :> JArr(<<"TYPE_COLOR", "TYPE_SHADE">>)) ))

\* A term reference, with the qualifiers given (none, or a list of kinds).
KeySection(qualifiers) ==
    (sectionScalar :> ( (scalarType :> typeKey) @@ qualifiers ))

\* A descriptor with a data section.
Descriptor(key, section) ==
    ("_key" :> key) @@ (sectionCode :> (localIdentifier :> key)) @@ (sectionData :> section)

\* An enumeration element: a term with a code and no data section.
EnumTerm(key, lid) == ("_key" :> key) @@ (sectionCode :> (localIdentifier :> lid))

\* The edge that makes a term an element of an enumeration type.
EnumEdge(key, type) ==
    [_from |-> Handle(collectionTerm, key),
     _predicate |-> predicateEnumeration,
     _path |-> << Handle(collectionTerm, type) >>]

StoreTerms ==
    ( "D0" :> ( ("_key" :> "D0") @@ (sectionCode :> (localIdentifier :> "D0"))
                @@ (sectionData :> TypelessSection) ) ) @@
    ( "D1" :> ( ("_key" :> "D1") @@ (sectionCode :> (localIdentifier :> "D1"))
                @@ (sectionData :> BooleanSection) ) ) @@
    ( "D2" :> ( ("_key" :> "D2") @@ (sectionCode :> (localIdentifier :> "D2"))
                @@ ("_info" :> "a bounded integer")
                @@ (sectionData :> IntegerRangeSection) ) ) @@
    ( "D3" :> ( ("_key" :> "D3") @@ (sectionCode :> (localIdentifier :> "D3"))
                @@ (sectionData :> TimestampSection) ) ) @@
    ( "D4" :> ( ("_key" :> "D4") @@ (sectionCode :> (localIdentifier :> "D4"))
                @@ (sectionData :> EnumSection) ) ) @@
    ( "D5" :> ( ("_key" :> "D5") @@ (sectionCode :> (localIdentifier :> "D5"))
                @@ (sectionData :> TimestampSection) ) ) @@
    ( "D6" :> ( ("_key" :> "D6") @@ (sectionCode :> (localIdentifier :> "D6"))
                @@ (sectionData :> StringSection) ) ) @@
    ( "D7"  :> Descriptor("D7", KeySection(EmptyMap)) ) @@
    ( "D8"  :> Descriptor("D8", KeySection((dataKind :> JArr(<<anyEnum>>)))) ) @@
    ( "D9"  :> Descriptor("D9", KeySection((dataKind :> JArr(<<anyDescriptor, anyObject>>)))) ) @@
    ( "D10" :> Descriptor("D10", KeySection((dataKind :> JArr(<<"TYPE_COLOR">>)))) ) @@
    ( "D11" :> Descriptor("D11", KeySection((dataKind :> JArr(<<anyObject, anyDescriptor>>)))) ) @@
    ( "D12" :> Descriptor("D12", IntegerRangeSection @@ (sectionArray :> EmptyMap)) ) @@
    ( "D13" :> Descriptor("D13", EmptyMap) ) @@
    ( "D14" :> Descriptor("D14", (sectionArray :> IntegerRangeSection)) ) @@
    ( "T_RULE" :> ( ("_key" :> "T_RULE") @@ (sectionCode :> (localIdentifier :> "T_RULE"))
                @@ (sectionRule :> ("_required" :> <<"D2">>)) ) ) @@
    ( "color_red" :> ( ("_key" :> "color_red")
                @@ (sectionCode :> (localIdentifier :> "red")) ) ) @@
    ( "shade_red"   :> EnumTerm("shade_red", "red") ) @@
    ( "color_green" :> EnumTerm("color_green", "green") ) @@
    ( "lime_green"  :> EnumTerm("lime_green", "green") ) @@
    ( "color_blue"  :> EnumTerm("color_blue", "blue") ) @@
    ( "sky_blue"    :> EnumTerm("sky_blue", "blue") ) @@
    ( "shade_blue"  :> EnumTerm("shade_blue", "blue") ) @@
    ( "size_big"    :> EnumTerm("size_big", "big") )

\* The edges collection in scan order.
StoreEdges ==
    << [_from |-> Handle(collectionTerm, "color_red"),
        _predicate |-> predicateEnumeration,
        _path |-> << Handle(collectionTerm, "TYPE_COLOR") >>],
       [_from |-> Handle(collectionTerm, "D2"),
        _predicate |-> "_predicate_section-of",
        _path |-> << Handle(collectionTerm, "FORM") >>],
       EnumEdge("shade_red", "TYPE_SHADE"),
       EnumEdge("color_green", "TYPE_COLOR"),
       EnumEdge("lime_green", "TYPE_COLOR"),
       EnumEdge("color_blue", "TYPE_COLOR"),
       EnumEdge("sky_blue", "TYPE_COLOR"),
       EnumEdge("shade_blue", "TYPE_SHADE"),
       EnumEdge("size_big", "TYPE_SIZE") >>

RECURSIVE FlattenPaths(_, _)
\* FOR doc IN edges FILTER ... FOR item IN doc._path RETURN PARSE_IDENTIFIER(item).key
FlattenPaths(edges, id) ==
    IF edges = << >> THEN << >>
    ELSE LET doc == Head(edges)
             own == IF doc._from = Handle(collectionTerm, id)
                       /\ doc._predicate = predicateEnumeration
                    THEN [i \in 1..Len(doc._path) |-> doc._path[i].key]
                    ELSE << >>
         IN  own \o FlattenPaths(Tail(edges), id)

\* TermsCache.props: the top level term properties the cache keeps.
props == {"_key", sectionData, sectionRule, sectionPath}

\* Query, keeping the code section too (as the first version of the class did).
Query_KeepCode(id) ==
    LET term == IF id \in DOMAIN StoreTerms
                THEN << Keep(StoreTerms[id], {"_key", sectionCode, sectionData, sectionRule}) >>
                ELSE << >>
        path == FlattenPaths(StoreEdges, id)
        enum == << IF Len(path) > 0 THEN (sectionPath :> path) ELSE EmptyMap >>
    IN  << IF Len(term) = 1
           THEN (IF Len(enum) = 1 THEN Merge(term[1], enum[1]) ELSE term[1])
           ELSE JFalse >>

\* The AQL query of getTerm.  Its final RETURN is not inside a FOR, so the
\* query yields exactly one row: the merged term, or false when no document
\* has the key.
Query(id) ==
    LET term == IF id \in DOMAIN StoreTerms
                THEN << Keep(StoreTerms[id], {"_key", sectionData, sectionRule}) >>
                ELSE << >>
        path == FlattenPaths(StoreEdges, id)
        enum == << IF Len(path) > 0 THEN (sectionPath :> path) ELSE EmptyMap >>
    IN  << IF Len(term) = 1
           THEN (IF Len(enum) = 1 THEN Merge(term[1], enum[1]) ELSE term[1])
           ELSE JFalse >>

\* Every identifier the model looks up.
AllIds == DOMAIN StoreTerms \cup {"D_NOPE", "T_NEW", "TYPE_COLOR",
                                  "red", "green", "blue", "teal"}

\* The store is unchanging: the rows of the query, per identifier.
StoreRows == [id \in AllIds |-> Query(id)]

\* db._query(aql`...`).toArray() of getTerm
StoreQuery(id) == StoreRows[id]

RECURSIVE SelectEdges(_, _, _)
\* FOR edge IN edges FILTER edge._from IN terms FILTER edge._predicate == ...
\*   FILTER CONCAT_SEPARATOR("/", collectionTerm, theEnum) IN edge._path
\* RETURN PARSE_IDENTIFIER(edge._from).key
SelectEdges(edges, terms, theEnum) ==
    IF edges = << >> THEN << >>
    ELSE LET edge == Head(edges)
             own  == IF /\ edge._from \in terms
                        /\ edge._predicate = predicateEnumeration
                        /\ \E i \in 1..Len(edge._path) :
                               edge._path[i] = Handle(collectionTerm, theEnum)
                     THEN << edge._from.key >>
                     ELSE << >>
         IN  own \o SelectEdges(Tail(edges), terms, theEnum)

\* The view search of QueryEnumIdentifierByCode: the handles of the terms
\* whose code section has the field with the value (the codes of this store
\* are scalars).
SearchCode(theField, theValue) ==
    { Handle(collectionTerm, key) : key \in
        { k \in DOMAIN StoreTerms :
            /\ sectionCode \in DOMAIN StoreTerms[k]
            /\ theField \in DOMAIN StoreTerms[k][sectionCode]
            /\ StoreTerms[k][sectionCode][theField] = theValue } }

-----------------------------------------------------------------------------
(* TermsCache                                                              *)

\* The identifiers getTerm is called with in the cache level specification.
TermIds == {"color_red", "D_NOPE", "T_NEW"}

\* Terms a caller stages in a batch before they are stored: complete term
\* documents (class comment of TermsCache).
StagedTerms ==
    ( "T_NEW" :> ( ("_key" :> "T_NEW") @@ (sectionCode :> (localIdentifier :> "new"))
                   @@ (sectionData :> BooleanSection) ) )

\* QueryEnumIdentifierByCode answering from the cache: no identifier for a
\* value the cache holds.
QueryEnumIdentifierByCode_Cached(c, theField, theValue, theEnum) ==
    IF theValue \in DOMAIN c
    THEN [ret |-> << >>, cache |-> c]
    ELSE [ret   |-> SelectEdges(StoreEdges, SearchCode(theField, theValue), theEnum),
          cache |-> c]

\* static QueryEnumIdentifierByCode(theField, theValue, theEnum) with the
\* global cache map c: the rows of the query and the cache map afterwards.
QueryEnumIdentifierByCode(c, theField, theValue, theEnum) ==
    [ret   |-> SelectEdges(StoreEdges, SearchCode(theField, theValue), theEnum),
     cache |-> c]

\* queryEnumIdentifierByCode(field, value, enumType) of an instance: the
\* list of the identifiers the static query selects.
queryEnumIdentifierByCode(c, theField, theValue, theEnum) ==
    QueryEnumIdentifierByCode(c, theField, theValue, theEnum)

\* TermsCache.DefaultNamespaceKey(): the reserved key of the default
\* namespace.
DefaultNamespaceKey == ":"

\* TermsCache.CheckKeyValue(value): the value matches the document key
\* grammar.  Of the strings of this model one does not.
CheckKeyValue(value) == value.s # "not a key"

CacheNull  == [isNull |-> TRUE,  map |-> EmptyMap]
CacheOf(m) == [isNull |-> FALSE, map |-> m]

\* getTerm consulting the batch before the cache.
getTerm_BatchFirst(c, b, theTermGID, doCache, doBatch, doMissing) ==
    IF doBatch /\ theTermGID \in DOMAIN b
    THEN [ret |-> b[theTermGID], cache |-> c, queried |-> FALSE]
    ELSE IF doCache /\ theTermGID \in DOMAIN c
    THEN [ret |-> c[theTermGID], cache |-> c, queried |-> FALSE]
    ELSE LET result == StoreQuery(theTermGID)
         IN  [ret     |-> result[1],
              cache   |-> IF doCache THEN Put(c, theTermGID, result[1]) ELSE c,
              queried |-> TRUE]

\* getTerm caching found terms only.
getTerm_FoundOnly(c, b, theTermGID, doCache, doBatch, doMissing) ==
    IF doCache /\ theTermGID \in DOMAIN c
    THEN [ret |-> c[theTermGID], cache |-> c, queried |-> FALSE]
    ELSE IF doBatch /\ theTermGID \in DOMAIN b
    THEN [ret |-> b[theTermGID], cache |-> c, queried |-> FALSE]
    ELSE LET result == StoreQuery(theTermGID)
         IN  [ret     |-> result[1],
              cache   |-> IF doCache /\ result[1] # JFalse
                          THEN Put(c, theTermGID, result[1]) ELSE c,
              queried |-> TRUE]

\* getTerm recording a miss whenever doMissing is set and the cache was
\* skipped, whatever the row of the query holds.
getTerm_MissUnseen(c, b, theTermGID, doCache, doBatch, doMissing) ==
    IF doCache /\ theTermGID \in DOMAIN c
    THEN [ret |-> c[theTermGID], cache |-> c, queried |-> FALSE]
    ELSE IF doBatch /\ theTermGID \in DOMAIN b
    THEN [ret |-> b[theTermGID], cache |-> c, queried |-> FALSE]
    ELSE LET result == StoreQuery(theTermGID)
         IN  [ret     |-> result[1],
              cache   |-> IF doCache THEN Put(c, theTermGID, result[1])
                          ELSE IF doMissing THEN Put(c, theTermGID, JFalse) ELSE c,
              queried |-> TRUE]

\* getTerm(theTermGID, doCache, doBatch, doMissing) on a cache map c and a
\* batch b: the returned value, the cache map afterwards, whether the store
\* was queried and which source served the call.
getTerm(c, b, theTermGID, doCache, doBatch, doMissing) ==
    IF doCache /\ theTermGID \in DOMAIN c
    THEN [ret |-> c[theTermGID], cache |-> c, queried |-> FALSE]
    ELSE IF doBatch /\ theTermGID \in DOMAIN b
    THEN [ret |-> b[theTermGID], cache |-> c, queried |-> FALSE]
    ELSE LET result == StoreQuery(theTermGID)
         IN  IF Len(result) = 1
             THEN [ret     |-> result[1],
                   cache   |-> IF doCache THEN Put(c, theTermGID, result[1]) ELSE c,
                   queried |-> TRUE]
             ELSE [ret     |-> JFalse,
                   cache   |-> IF doMissing THEN Put(c, theTermGID, JFalse) ELSE c,
                   queried |-> TRUE]

\* result[term] = this.getTerm(term, doCache, doBatch, doMissing), for one
\* element of the list: the result so far gets the value, the cache map is
\* the one the call leaves.
getTermsEach(result, term, r) ==
    [ret |-> Put(result, term, r.ret), cache |-> r.cache]

RECURSIVE forEach(_, _, _, _, _, _)
\* TheTermGIDList.forEach(...): the elements of the list in order, each call
\* starting from the cache map the one before it left.
forEach(acc, b, TheTermGIDList, doCache, doBatch, doMissing) ==
    IF TheTermGIDList = << >> THEN acc
    ELSE forEach(getTermsEach(acc.ret, Head(TheTermGIDList),
                              getTerm(acc.cache, b, Head(TheTermGIDList),
                                      doCache, doBatch, doMissing)),
                 b, Tail(TheTermGIDList), doCache, doBatch, doMissing)

\* getTerms(TheTermGIDList, doCache, doBatch, doMissing): the dictionary of
\* the terms of the list, each got by getTerm, and the cache map afterwards.
getTerms(c, b, TheTermGIDList, doCache, doBatch, doMissing) ==
    forEach([ret |-> EmptyMap, cache |-> c], b, TheTermGIDList, doCache, doBatch, doMissing)

NoCall == [op |-> "none"]

\* missed: a call with doMissing set missed in the store; missedCached: so
\* did one with doCache set too; rets: the values returned so far;
\* retsNoBatch: those of them that no batch served.
NoHist == [id \in TermIds |-> [missed |-> FALSE, missedCached |-> FALSE,
                               rets |-> {}, retsNoBatch |-> {}]]

\* No validator has been constructed.
NoValidator == [phase |-> "none"]

\* No getTerm call is under way.
NoFlight == [i \in 1..NumInst |-> [pc |-> "idle"]]

Init ==
    /\ cache = CacheNull
    /\ insts = {}
    /\ batch = [i \in 1..NumInst |-> EmptyMap]
    /\ lastCall = NoCall
    /\ hist = NoHist
    /\ v = NoValidator
    /\ inflight = NoFlight

\* A constructor that starts every instance from an empty global cache.
NewTermsCache_Reset(i) ==
    /\ i \notin insts
    /\ insts' = insts \cup {i}
    /\ cache' = CacheOf(EmptyMap)
    /\ batch' = [batch EXCEPT ![i] = EmptyMap]
    /\ UNCHANGED <<lastCall, hist, v, inflight>>

\* new TermsCache(): the static cache is created once; each instance has its
\* own, empty, batch.
NewTermsCache(i) ==
    /\ i \notin insts
    /\ insts' = insts \cup {i}
    /\ cache' = IF cache.isNull THEN CacheOf(EmptyMap) ELSE cache
    /\ batch' = [batch EXCEPT ![i] = EmptyMap]
    /\ UNCHANGED <<lastCall, hist, v, inflight>>

\* A caller stages a term in the batch of instance i.
StageTerm(i, id) ==
    /\ i \in insts
    /\ id \in DOMAIN StagedTerms
    /\ id \notin DOMAIN batch[i]
    /\ batch' = [batch EXCEPT ![i] = Put(@, id, StagedTerms[id])]
    /\ UNCHANGED <<cache, insts, lastCall, hist, v, inflight>>

\* instance i calls getTerm(id, doCache, doBatch, doMissing); the call, its
\* result and the state it started from are recorded in lastCall.
GetTerm(i, id, doCache, doBatch, doMissing) ==
    /\ i \in insts
    /\ LET r == getTerm(cache.map, batch[i], id, doCache, doBatch, doMissing)
       IN  /\ cache' = CacheOf(r.cache)
           /\ lastCall' = [op |-> "getTerm", inst |-> i, id |-> id,
                           doCache |-> doCache, doBatch |-> doBatch,
                           doMissing |-> doMissing,
                           ret |-> r.ret, queried |-> r.queried,
                           before |-> cache.map, batchBefore |-> batch[i]]
    /\ UNCHANGED <<insts, batch, hist, v, inflight>>

Next ==
    \/ \E i \in 1..NumInst : NewTermsCache(i)
    \/ \E i \in 1..NumInst, id \in TermIds : StageTerm(i, id)
    \/ \E i \in 1..NumInst, id \in TermIds, doCache, doBatch, doMissing \in BOOLEAN :
          GetTerm(i, id, doCache, doBatch, doMissing)

Spec == Init /\ [][Next]_vars


-----------------------------------------------------------------------------
(* Properties of TermsCache.getTerm.                                       *)

IsCall == lastCall.op = "getTerm"

\* C1: getTerm consults the global cache (only when doCache), then the
\* batch of the instance (only when doBatch), then the store: a cache entry
\* is returned without a store query; otherwise a batch entry is returned
\* without a store query; only otherwise is the store queried.
C1_LookupOrder ==
    IsCall =>
        IF lastCall.doCache /\ lastCall.id \in DOMAIN lastCall.before
        THEN lastCall.ret = lastCall.before[lastCall.id] /\ ~lastCall.queried
        ELSE IF lastCall.doBatch /\ lastCall.id \in DOMAIN lastCall.batchBefore
        THEN lastCall.ret = lastCall.batchBefore[lastCall.id] /\ ~lastCall.queried
        ELSE lastCall.queried

\* A call the batch served although the cache was consulted first, and one
\* the cache served although the batch holds the identifier too.
C1_Witness ==
    /\ IsCall
    /\ lastCall.doCache /\ lastCall.doBatch
    /\ lastCall.id \in DOMAIN lastCall.before
    /\ lastCall.id \in DOMAIN lastCall.batchBefore
    /\ lastCall.before[lastCall.id] # lastCall.batchBefore[lastCall.id]
    /\ ~lastCall.queried

\* C27 (as claimed): when doBatch is set and the batch of the instance holds
\* a record for the identifier, getTerm returns that batch record whenever
\* the global cache does not supply a term record for it (doCache unset, no
\* cache entry, or a cached miss), without a store query and without a write
\* to the global cache.
C27_BatchServes ==
    (/\ IsCall
     /\ lastCall.doBatch
     /\ lastCall.id \in DOMAIN lastCall.batchBefore
     /\ ~(/\ lastCall.doCache
          /\ lastCall.id \in DOMAIN lastCall.before
          /\ lastCall.before[lastCall.id] # JFalse)) =>
        /\ lastCall.ret = lastCall.batchBefore[lastCall.id]
        /\ ~lastCall.queried
        /\ cache.map = lastCall.before

\* C3 (as claimed): on a store miss getTerm writes the absent sentinel into
\* the global cache only when both doMissing and doCache are set; when either
\* is unset the miss leaves the global cache unchanged.
C3_MissWritesOnlyWithBothFlags ==
    (IsCall /\ lastCall.queried /\ lastCall.ret = JFalse) =>
        cache.map = IF lastCall.doMissing /\ lastCall.doCache
                    THEN Put(lastCall.before, lastCall.id, JFalse)
                    ELSE lastCall.before

-----------------------------------------------------------------------------
(* The same calls, observed over time: hist keeps, per identifier, what    *)
(* the calls made so far did.  All instances exist from the start.         *)

InitHist ==
    /\ cache = CacheOf(EmptyMap)
    /\ insts = 1..NumInst
    /\ batch = [i \in 1..NumInst |-> EmptyMap]
    /\ lastCall = NoCall
    /\ hist = NoHist
    /\ v = NoValidator
    /\ inflight = NoFlight

GetTermHist(i, id, doCache, doBatch, doMissing) ==
    /\ i \in insts
    /\ LET r    == getTerm(cache.map, batch[i], id, doCache, doBatch, doMissing)
           miss == r.queried /\ r.ret = JFalse
           fromBatch == ~r.queried /\ ~(doCache /\ id \in DOMAIN cache.map)
       IN  /\ cache' = CacheOf(r.cache)
           /\ lastCall' = [op |-> "getTerm", id |-> id,
                           doCache |-> doCache, doBatch |-> doBatch,
                           doMissing |-> doMissing,
                           ret |-> r.ret, queried |-> r.queried,
                           fromBatch |-> fromBatch,
                           histBefore |-> hist[id]]
           /\ hist' = [hist EXCEPT ![id] =
                          [missed       |-> @.missed \/ (miss /\ doMissing),
                           missedCached |-> @.missedCached \/ (miss /\ doMissing /\ doCache),
                           rets         |-> @.rets \cup {r.ret},
                           retsNoBatch  |-> IF fromBatch THEN @.retsNoBatch
                                            ELSE @.retsNoBatch \cup {r.ret}]]
    /\ UNCHANGED <<insts, batch, v, inflight>>

NextHist ==
    \/ \E i \in 1..NumInst, id \in TermIds : StageTerm(i, id)
    \/ \E i \in 1..NumInst, id \in TermIds, doCache, doBatch, doMissing \in BOOLEAN :
          GetTermHist(i, id, doCache, doBatch, doMissing)

SpecHist == InitHist /\ [][NextHist]_vars

\* C2 (as claimed): with doMissing set, once a getTerm(id) call has missed in
\* the store, every later getTerm(id) call made with doMissing set returns
\* absent without a store query.
C2_MissSuppression_AsClaimed ==
    (IsCall /\ lastCall.doMissing /\ lastCall.histBefore.missed) =>
        (lastCall.ret = JFalse /\ ~lastCall.queried)

\* C2 (amended): with doMissing set, once a getTerm(id) call made with
\* doCache set has missed in the store, every later getTerm(id) call made
\* with doCache and doMissing set, on any instance, returns absent without a
\* store query.
C2_MissSuppression ==
    (IsCall /\ lastCall.doMissing /\ lastCall.doCache
            /\ lastCall.histBefore.missedCached) =>
        (lastCall.ret = JFalse /\ ~lastCall.queried)

\* A later call of that kind, after such a miss.
C2_Witness ==
    /\ IsCall /\ lastCall.doMissing /\ lastCall.doCache /\ lastCall.doBatch
    /\ lastCall.histBefore.missedCached
    /\ ~lastCall.queried

\* A term record carries the projected properties only.
Projected(x) == x = JFalse \/ DOMAIN x \subseteq props

\* C4 (as claimed): every getTerm call for an identifier returns the same
\* value, and a term record returned by the store or the global cache carries
\* only the projected properties.
C4_ProjectionStability_AsClaimed ==
    \A id \in TermIds :
        /\ Cardinality(hist[id].rets) <= 1
        /\ \A x \in hist[id].retsNoBatch : Projected(x)

\* C4 (amended): every getTerm call for an identifier that no batch serves
\* returns the same value, and a term record returned by the store or the
\* global cache carries only the projected properties.
C4_ProjectionStability ==
    \A id \in TermIds :
        /\ Cardinality(hist[id].retsNoBatch) <= 1
        /\ \A x \in hist[id].retsNoBatch : Projected(x)

\* A term record served by the global cache after the store served it.
C4_Witness ==
    /\ IsCall /\ ~lastCall.queried /\ ~lastCall.fromBatch
    /\ lastCall.ret # JFalse
    /\ lastCall.ret \in lastCall.histBefore.retsNoBatch

-----------------------------------------------------------------------------
(* The store can fail: db._query throws.  And the enumeration query, called *)
(* under every content of the cache and of the batches.                     *)

\* The identifiers and codes the calls of this specification are made with.
StoreIds == {"T_NEW", "red"}

\* getTerm caching the miss before the failing query surfaces.
getTermStoreFails_Sentinel(c, b, theTermGID, doCache, doBatch, doMissing) ==
    IF doCache /\ theTermGID \in DOMAIN c
    THEN [ret |-> c[theTermGID], cache |-> c, queried |-> FALSE, threw |-> FALSE]
    ELSE IF doBatch /\ theTermGID \in DOMAIN b
    THEN [ret |-> b[theTermGID], cache |-> c, queried |-> FALSE, threw |-> FALSE]
    ELSE [ret |-> JUndef, queried |-> TRUE, threw |-> TRUE,
          cache |-> IF doMissing THEN Put(c, theTermGID, JFalse) ELSE c]

\* getTerm when db._query throws: the exception leaves the method at the
\* query, before the statements that write the cache.
getTermStoreFails(c, b, theTermGID, doCache, doBatch, doMissing) ==
    IF doCache /\ theTermGID \in DOMAIN c
    THEN [ret |-> c[theTermGID], cache |-> c, queried |-> FALSE, threw |-> FALSE]
    ELSE IF doBatch /\ theTermGID \in DOMAIN b
    THEN [ret |-> b[theTermGID], cache |-> c, queried |-> FALSE, threw |-> FALSE]
    ELSE [ret |-> JUndef, cache |-> c, queried |-> TRUE, threw |-> TRUE]

\* instance i calls getTerm while the store fails.
GetTermStoreFails(i, id, doCache, doBatch, doMissing) ==
    /\ i \in insts
    /\ UNCHANGED <<insts, batch, hist, v, inflight>>
    /\ LET r == getTermStoreFails(cache.map, batch[i], id, doCache, doBatch, doMissing)
       IN  /\ cache' = CacheOf(r.cache)
           /\ lastCall' = [op |-> "getTermStoreFails", inst |-> i, id |-> id,
                           doCache |-> doCache, doBatch |-> doBatch,
                           doMissing |-> doMissing,
                           ret |-> r.ret, queried |-> r.queried, threw |-> r.threw,
                           before |-> cache.map, after |-> r.cache,
                           batchBefore |-> batch[i], batchAfter |-> batch'[i]]

\* instance i is asked for the elements of an enumeration with a code.
QueryEnum(i, theField, theValue, theEnum) ==
    /\ i \in insts
    /\ UNCHANGED <<insts, batch, hist, v, inflight>>
    /\ LET r == QueryEnumIdentifierByCode(cache.map, theField, theValue, theEnum)
       IN  /\ cache' = CacheOf(r.cache)
           /\ lastCall' = [op |-> "queryEnum", inst |-> i, field |-> theField,
                           value |-> theValue, enum |-> theEnum, ret |-> r.ret,
                           before |-> cache.map, after |-> r.cache,
                           batchBefore |-> batch[i], batchAfter |-> batch'[i]]

NextS ==
    \/ \E i \in 1..NumInst : NewTermsCache(i)
    \/ \E i \in 1..NumInst, id \in StoreIds : StageTerm(i, id)
    \/ \E i \in 1..NumInst, id \in StoreIds, doCache, doBatch, doMissing \in BOOLEAN :
          GetTerm(i, id, doCache, doBatch, doMissing)
    \/ \E i \in 1..NumInst, id \in StoreIds, doCache, doBatch, doMissing \in BOOLEAN :
          GetTermStoreFails(i, id, doCache, doBatch, doMissing)
    \/ \E i \in 1..NumInst, theValue \in {"red", "green"},
          theEnum \in {"TYPE_COLOR", "TYPE_SHADE"} :
          QueryEnum(i, localIdentifier, theValue, theEnum)

SpecS == Init /\ [][NextS]_vars

\* C17: when the store query of getTerm(id) fails, the call throws and the
\* global cache and the batch are as they were before the call, so that the
\* same call made again reaches the store again.
C17_StoreFailureKeepsCache ==
    (lastCall.op = "getTermStoreFails" /\ lastCall.queried) =>
        /\ lastCall.threw
        /\ lastCall.after = lastCall.before
        /\ lastCall.batchAfter = lastCall.batchBefore
        /\ getTerm(lastCall.after, lastCall.batchAfter, lastCall.id, lastCall.doCache,
                   lastCall.doBatch, lastCall.doMissing).queried

\* A call that would have cached its miss failed at the store, with other
\* identifiers in the cache.
C17_Witness ==
    /\ lastCall.op = "getTermStoreFails" /\ lastCall.threw
    /\ lastCall.doCache /\ lastCall.doMissing
    /\ lastCall.before # EmptyMap
    /\ lastCall.id \notin DOMAIN cache.map

\* C18: the enumeration query returns what the store alone determines, the
\* same under every content of the cache and of the batch, and leaves the
\* cache and the batch as they were.
C18_QueryIgnoresCache ==
    lastCall.op = "queryEnum" =>
        /\ lastCall.ret = SelectEdges(StoreEdges,
                                      SearchCode(lastCall.field, lastCall.value),
                                      lastCall.enum)
        /\ lastCall.after = lastCall.before
        /\ lastCall.batchAfter = lastCall.batchBefore

\* The query found the one element with a code that the cache holds as
\* absent, while the batch of the instance holds a term.
C18_Witness ==
    /\ lastCall.op = "queryEnum"
    /\ lastCall.value \in DOMAIN lastCall.before
    /\ lastCall.before[lastCall.value] = JFalse
    /\ lastCall.batchBefore # EmptyMap
    /\ Len(lastCall.ret) = 1

-----------------------------------------------------------------------------
(* getTerm step by step: the calls of the instances interleave between the  *)
(* checks, the store query and the cache write.  The store does not change. *)

\* The identifiers of the interleaved calls: a stored term, and one that is
\* not stored and can be staged.
FlightIds == {"color_red", "T_NEW"}

\* The checks of the cache and of the batch at the head of getTerm: which of
\* them serves the call, and with what.
served(c, b, theTermGID, doCache, doBatch) ==
    IF doCache /\ theTermGID \in DOMAIN c
    THEN [by |-> "cache", ret |-> c[theTermGID]]
    ELSE IF doBatch /\ theTermGID \in DOMAIN b
    THEN [by |-> "batch", ret |-> b[theTermGID]]
    ELSE [by |-> "store", ret |-> JUndef]

\* The cache write recording that the term was found, not the term.
stored_Found(c, theTermGID, result, doCache, doMissing) ==
    IF Len(result) = 1
    THEN IF doCache THEN Put(c, theTermGID, JBool(result[1] # JFalse)) ELSE c
    ELSE IF doMissing THEN Put(c, theTermGID, JFalse) ELSE c

\* The statements of getTerm after the query: the cache map they leave.
stored(c, theTermGID, result, doCache, doMissing) ==
    IF Len(result) = 1
    THEN IF doCache THEN Put(c, theTermGID, result[1]) ELSE c
    ELSE IF doMissing THEN Put(c, theTermGID, JFalse) ELSE c

\* instance i enters getTerm and checks the cache and its batch.
Call(i, id, doCache, doBatch, doMissing) ==
    /\ inflight[i].pc = "idle"
    /\ LET s == served(cache.map, batch[i], id, doCache, doBatch)
       IN  inflight' = [inflight EXCEPT ![i] =
                           IF s.by = "store"
                           THEN [pc |-> "query", id |-> id, doCache |-> doCache,
                                 doMissing |-> doMissing]
                           ELSE [pc |-> "done", id |-> id, ret |-> s.ret,
                                 fromBatch |-> s.by = "batch"]]
    /\ UNCHANGED <<cache, insts, batch, lastCall, hist, v>>

\* the query of instance i returns.
QueryStore(i) ==
    /\ inflight[i].pc = "query"
    /\ inflight' = [inflight EXCEPT ![i] =
                       [pc |-> "write", id |-> @.id, doCache |-> @.doCache,
                        doMissing |-> @.doMissing, result |-> StoreQuery(@.id)]]
    /\ UNCHANGED <<cache, insts, batch, lastCall, hist, v>>

\* instance i writes the cache and returns.
WriteCache(i) ==
    /\ inflight[i].pc = "write"
    /\ LET f == inflight[i]
       IN  /\ cache' = CacheOf(stored(cache.map, f.id, f.result, f.doCache, f.doMissing))
           /\ inflight' = [inflight EXCEPT ![i] =
                              [pc |-> "done", id |-> f.id,
                               ret |-> IF Len(f.result) = 1 THEN f.result[1] ELSE JFalse,
                               fromBatch |-> FALSE]]
    /\ UNCHANGED <<insts, batch, lastCall, hist, v>>

\* the caller of instance i has its value.
Return(i) ==
    /\ inflight[i].pc = "done"
    /\ inflight' = [inflight EXCEPT ![i] = [pc |-> "idle"]]
    /\ UNCHANGED <<cache, insts, batch, lastCall, hist, v>>

NextC ==
    \/ \E i \in 1..NumInst, id \in FlightIds : StageTerm(i, id)
    \/ \E i \in 1..NumInst, id \in FlightIds, doCache, doBatch, doMissing \in BOOLEAN :
          Call(i, id, doCache, doBatch, doMissing)
    \/ \E i \in 1..NumInst : QueryStore(i)
    \/ \E i \in 1..NumInst : WriteCache(i)
    \/ \E i \in 1..NumInst : Return(i)

SpecC == InitHist /\ [][NextC]_vars

\* Every entry of the global cache is the store's projection of its
\* identifier.
CacheIsProjection ==
    \A id \in DOMAIN cache.map : cache.map[id] = StoreQuery(id)[1]

\* C16 (as claimed): under every interleaving each finished call returned the
\* store's projection of its identifier, or absent, and every entry of the
\* global cache is that same value.
C16_SharedCache_AsClaimed ==
    /\ \A i \in 1..NumInst :
          inflight[i].pc = "done" => inflight[i].ret = StoreQuery(inflight[i].id)[1]
    /\ CacheIsProjection

\* C16: under every interleaving each finished call that its batch did not
\* serve returned the store's projection of its identifier, or absent, a
\* call its batch served returned the staged term, and every entry of the
\* global cache is the store's projection.
C16_SharedCache ==
    /\ \A i \in 1..NumInst :
          inflight[i].pc = "done" =>
              inflight[i].ret = IF inflight[i].fromBatch
                                THEN StagedTerms[inflight[i].id]
                                ELSE StoreQuery(inflight[i].id)[1]
    /\ CacheIsProjection

\* Two calls for one identifier overlapped: one has queried and is about to
\* write the entry that the other, which queried too, wrote already.
C16_Witness ==
    \E i, j \in 1..NumInst :
        /\ i # j
        /\ inflight[i].pc = "done" /\ ~inflight[i].fromBatch
        /\ inflight[j].pc = "write" /\ inflight[j].doCache
        /\ inflight[j].id = inflight[i].id
        /\ inflight[i].id \in DOMAIN cache.map
        /\ inflight[i].ret # JFalse

-----------------------------------------------------------------------------
(* ValidationReport and ValidationStatus (src/scripts/teardown.js)         *)

language == "iso_639_3_eng"

\* ValidationStatus.statusRecords: the status codes by name.
statusRecords ==
    ("kNINVALID_DATA_KIND_OPTION" :> -4) @@ ("kNOT_ARRAY_DATA_KIND" :> -3) @@
    ("kRANGE_NOT_AN_OBJECT" :> -2) @@ ("kEXPECTING_DATA_DIMENSION" :> -1) @@
    ("kOK" :> 0) @@ ("kNOT_AN_OBJECT" :> 1) @@ ("kNOT_AN_ARRAY" :> 2) @@
    ("kEMPTY_OBJECT" :> 3) @@ ("kUNKNOWN_TERM" :> 4) @@ ("kNOT_A_DESCRIPTOR" :> 5) @@
    ("kNOT_A_SCALAR" :> 6) @@ ("kMISSING_SCALAR_DATA_TYPE" :> 7) @@
    ("kNOT_A_BOOLEAN" :> 8) @@ ("kNOT_AN_INTEGER" :> 9) @@ ("kNOT_A_NUMBER" :> 10) @@
    ("kVALUE_OUT_OF_RANGE" :> 11) @@ ("kVALUE_LOW_RANGE" :> 12) @@
    ("kVALUE_HIGH_RANGE" :> 13) @@ ("kVALUE_NOT_A_TIMESTAMP" :> 14) @@
    ("kUNSUPPORTED" :> 15) @@ ("kNOT_A_STRING" :> 16) @@ ("kNO_MATCH_REGEXP" :> 17) @@
    ("kEMPTY_KEY" :> 18) @@ ("kNOT_AN_ENUM" :> 19) @@
    ("kNOT_A_STRUCTURE_DEFINITION" :> 20) @@ ("kNO_REF_DEFAULT_NAMESPACE_KEY" :> 21) @@
    ("kUNKNOWN_DOCUMENT" :> 22) @@ ("kBAD_KEY_VALUE" :> 23) @@
    ("kBAD_HANDLE_VALUE" :> 24) @@ ("kBAD_COLLECTION_NAME" :> 25) @@
    ("kUNKNOWN_COLLECTION" :> 26)

\* The languages a status record has a message in: every record has the
\* default language, the idle record four more.
statusLanguages(theCode) ==
    IF theCode = "kOK"
    THEN {"iso_639_3_eng", "iso_639_3_ita", "iso_639_3_fra", "iso_639_3_esp", "iso_639_3_deu"}
    ELSE {"iso_639_3_eng"}

\* new ValidationStatus(theCode, theLanguage), for a code statusRecords has.
\* The message is named by its record and language.
ValidationStatus(theCode, theLanguage) ==
    [code    |-> statusRecords[theCode],
     message |-> [of   |-> theCode,
                  lang |-> IF theLanguage \in statusLanguages(theCode)
                           THEN theLanguage ELSE language]]

\* new ValidationReport(theStatusCode, theDescriptor, theValue, theLanguage)
ValidationReport(theStatusCode, theDescriptor, theValue, theLanguage) ==
    ("status" :> ValidationStatus(theStatusCode, theLanguage))
    @@ (IF theDescriptor # "" THEN ("descriptor" :> theDescriptor) ELSE EmptyMap)
    @@ (IF theValue # JNull THEN ("value" :> theValue) ELSE EmptyMap)

-----------------------------------------------------------------------------
(* Validator: static utilities and the report.                             *)

\* The numbers of this model are whole, so _.isInteger and _.isNumber agree.
IsBoolean(x) == x.t = "boolean"
IsInteger(x) == x.t = "number"
IsNumber(x)  == x.t = "number"
IsString(x)  == x.t = "string"
IsArray(x)   == x.t = "array"
IsObject(x)  == x.t = "object"
IsDescriptor(theTerm) == sectionData \in DOMAIN theTerm
IsStruct(theTerm)     == sectionRule \in DOMAIN theTerm

\* IsEnum(theTerm, theEnum = ''): false for a term without path, and false
\* when no enumeration type is given.
IsEnum(theTerm, theEnum) ==
    /\ sectionPath \in DOMAIN theTerm
    /\ theEnum # ""
    /\ \E j \in 1..Len(theTerm[sectionPath]) : theTerm[sectionPath][j] = theEnum

\* theContainer[key].  Term keys are neither index names nor "length", so an
\* array has no such property.
GetProp(theContainer, key) ==
    IF theContainer.t = "object" /\ key \in DOMAIN theContainer.p
    THEN theContainer.p[key]
    ELSE JUndef

\* theContainer[key] = val on a plain object.
SetProp(theContainer, key, val) ==
    JObj(IF key \in DOMAIN theContainer.p THEN theContainer.k
                                         ELSE Append(theContainer.k, key),
         Put(theContainer.p, key, val))

\* A parameter with a default value takes it when the argument is undefined.
Default(arg, dflt) == IF arg = JUndef THEN dflt ELSE arg

\* this.report: not set, one slot (an object), or an array of slots.
ReportUnset     == [t |-> "undefined"]
ReportObject(s) == [t |-> "object", s |-> s]
ReportArray(e)  == [t |-> "array", e |-> e]

\* SetIndex writing the first slot of the array whenever the index exists.
SetIndex_First(rep, theReportIndex, slot) ==
    IF rep.t = "array" /\ theReportIndex <= Len(rep.e)
    THEN ReportArray([rep.e EXCEPT ![1] = slot])
    ELSE IF rep.t = "array" /\ theReportIndex = Len(rep.e) + 1
    THEN ReportArray(Append(rep.e, slot))
    ELSE rep

\* this.report[theReportIndex] = slot; indexes are 1-based here.  The
\* validator writes an index of an array it has, or the next one.
SetIndex(rep, theReportIndex, slot) ==
    IF rep.t = "array" /\ theReportIndex <= Len(rep.e)
    THEN ReportArray([rep.e EXCEPT ![theReportIndex] = slot])
    ELSE IF rep.t = "array" /\ theReportIndex = Len(rep.e) + 1
    THEN ReportArray(Append(rep.e, slot))
    ELSE rep

\* The state a validation method works on: the report, the container it was
\* handed (mutated in place by resolutions), the global cache map, and
\* whether an exception is propagating (and which).
Returned(ok, m) == [ok |-> ok, m |-> m]
Thrown(m, what) == [ok |-> FALSE, m |-> [m EXCEPT !.threw = TRUE, !.error = what]]

UnknownStatus == "Accessing unknown status code"

\* setStatusReport(theStatus, theDescriptor, theValue, theReportIndex,
\* theCustomFields); theReportIndex 0 stands for null.
setStatusReport(self, m, theStatus, theDescriptor, theValue, theReportIndex, theCustomFields) ==
    IF theStatus \notin DOMAIN statusRecords
    THEN Thrown(m, UnknownStatus)
    ELSE LET report == Merge(ValidationReport(theStatus, theDescriptor,
                                              Default(theValue, JNull), self.language),
                             theCustomFields)
         IN  Returned(report["status"].code = 0,
                      [m EXCEPT !.report =
                          IF theReportIndex # 0
                          THEN SetIndex(m.report, theReportIndex, report)
                          ELSE ReportObject(report)])

\* crypto.md5(theDescriptor + "\t" + theOldValue.toString()).  The validator
\* logs strings only, and the toString() of a string is that string.  The
\* digests of the texts the model can log, one name per text: no two of its
\* texts collide.
md5(theDescriptor, theOldValue) ==
    IF theDescriptor = "D3" /\ theOldValue.s = "1970-01-01T00:00:00.000Z"
    THEN "md5(D3\t1970-01-01T00:00:00.000Z)"
    ELSE IF theDescriptor = "D3" /\ theOldValue.s = "1970-01-01T00:00:00.011Z"
    THEN "md5(D3\t1970-01-01T00:00:00.011Z)"
    ELSE IF theDescriptor = "D5" /\ theOldValue.s = "1970-01-01T00:00:00.011Z"
    THEN "md5(D5\t1970-01-01T00:00:00.011Z)"
    ELSE IF theDescriptor = "D4" /\ theOldValue.s = "red"
    THEN "md5(D4\tred)"
    ELSE IF theDescriptor = "D4" /\ theOldValue.s = "blue"
    THEN "md5(D4\tblue)"
    ELSE "md5(other)"

\* logResolvedValues(theDescriptor, theOldValue, theNewValue, theReportIndex)
logResolvedValues(m, theDescriptor, theOldValue, theNewValue, theReportIndex) ==
    LET hash   == md5(theDescriptor, theOldValue)
        record == (hash :> [field |-> theDescriptor, original |-> theOldValue,
                            resolved |-> theNewValue])
    IN  IF theReportIndex # 0
        THEN [m EXCEPT !.report =
                 ReportArray([m.report.e EXCEPT ![theReportIndex] =
                                 Put(@, "changes", record)])]
        ELSE [m EXCEPT !.report = ReportObject(record)]

-----------------------------------------------------------------------------
(* Validator: the checks of a scalar value.                                *)

\* checkNumericRange testing the maxima before the minima.
checkNumericRange_MaxFirst(self, m, theDescriptor, theSection, theReportIndex) ==
    IF rangeNumber \in DOMAIN theSection
    THEN LET value == GetProp(m.cont, theDescriptor["_key"])
             range == theSection[rangeNumber]
             low   == setStatusReport(self, m, "kVALUE_LOW_RANGE", theDescriptor["_key"],
                                      value, theReportIndex, ("section" :> range))
             high  == setStatusReport(self, m, "kVALUE_HIGH_RANGE", theDescriptor["_key"],
                                      value, theReportIndex, ("section" :> range))
         IN  IF IsObject(range)
             THEN IF rangeNumberMaxInclusive \in DOMAIN range.p
                     /\ value.n > range.p[rangeNumberMaxInclusive] THEN high
                  ELSE IF rangeNumberMaxExclusive \in DOMAIN range.p
                     /\ value.n >= range.p[rangeNumberMaxExclusive] THEN high
                  ELSE IF rangeNumberMinInclusive \in DOMAIN range.p
                     /\ value.n < range.p[rangeNumberMinInclusive] THEN low
                  ELSE IF rangeNumberMinExclusive \in DOMAIN range.p
                     /\ value.n <= range.p[rangeNumberMinExclusive] THEN low
                  ELSE Returned(TRUE, m)
             ELSE setStatusReport(self, m, "kRANGE_NOT_AN_OBJECT", theDescriptor["_key"],
                                  range, theReportIndex, ("section" :> theSection))
    ELSE Returned(TRUE, m)

\* checkNumericRange(theContainer, theDescriptor, theSection, theReportIndex)
checkNumericRange(self, m, theDescriptor, theSection, theReportIndex) ==
    IF rangeNumber \in DOMAIN theSection
    THEN LET value == GetProp(m.cont, theDescriptor["_key"])
             range == theSection[rangeNumber]
             low   == setStatusReport(self, m, "kVALUE_LOW_RANGE", theDescriptor["_key"],
                                      value, theReportIndex, ("section" :> range))
             high  == setStatusReport(self, m, "kVALUE_HIGH_RANGE", theDescriptor["_key"],
                                      value, theReportIndex, ("section" :> range))
         IN  IF IsObject(range)
             THEN IF rangeNumberMinInclusive \in DOMAIN range.p
                     /\ value.n < range.p[rangeNumberMinInclusive] THEN low
                  ELSE IF rangeNumberMinExclusive \in DOMAIN range.p
                     /\ value.n <= range.p[rangeNumberMinExclusive] THEN low
                  ELSE IF rangeNumberMaxInclusive \in DOMAIN range.p
                     /\ value.n > range.p[rangeNumberMaxInclusive] THEN high
                  ELSE IF rangeNumberMaxExclusive \in DOMAIN range.p
                     /\ value.n >= range.p[rangeNumberMaxExclusive] THEN high
                  ELSE Returned(TRUE, m)
             ELSE setStatusReport(self, m, "kRANGE_NOT_AN_OBJECT", theDescriptor["_key"],
                                  range, theReportIndex, ("section" :> theSection))
    ELSE Returned(TRUE, m)

\* doValidateBoolean
doValidateBoolean(self, m, theDescriptor, theSection, theReportIndex) ==
    IF IsBoolean(GetProp(m.cont, theDescriptor["_key"]))
    THEN Returned(TRUE, m)
    ELSE setStatusReport(self, m, "kNOT_A_BOOLEAN", theDescriptor["_key"],
                         GetProp(m.cont, theDescriptor["_key"]), theReportIndex, EmptyMap)

\* doValidateInteger
doValidateInteger(self, m, theDescriptor, theSection, theReportIndex) ==
    IF IsInteger(GetProp(m.cont, theDescriptor["_key"]))
    THEN checkNumericRange(self, m, theDescriptor, theSection, theReportIndex)
    ELSE setStatusReport(self, m, "kNOT_AN_INTEGER", theDescriptor["_key"],
                         GetProp(m.cont, theDescriptor["_key"]), theReportIndex, EmptyMap)

\* doValidateNumber
doValidateNumber(self, m, theDescriptor, theSection, theReportIndex) ==
    IF IsNumber(GetProp(m.cont, theDescriptor["_key"]))
    THEN checkNumericRange(self, m, theDescriptor, theSection, theReportIndex)
    ELSE setStatusReport(self, m, "kNOT_A_NUMBER", theDescriptor["_key"],
                         GetProp(m.cont, theDescriptor["_key"]), theReportIndex, EmptyMap)

\* The date strings of the model and new Date(string).valueOf() for them;
\* for every other string the date is invalid (NaN).
EpochString == "1970-01-01T00:00:00.000Z"
LaterString == "1970-01-01T00:00:00.011Z"
DateValue   == (EpochString :> 0) @@ (LaterString :> 11)

\* doValidateTimeStamp: a number is checked as it is; a string that parses
\* as a date is logged, replaced in the container by its time, then checked.
doValidateTimeStamp(self, m, theDescriptor, theSection, theReportIndex) ==
    LET value == GetProp(m.cont, theDescriptor["_key"])
    IN  IF IsNumber(value)
        THEN checkNumericRange(self, m, theDescriptor, theSection, theReportIndex)
        ELSE IF IsString(value) /\ value.s \in DOMAIN DateValue
        THEN LET timestamp == JInt(DateValue[value.s])
                 logged    == logResolvedValues(m, theDescriptor["_key"], value,
                                                timestamp, theReportIndex)
                 updated   == [logged EXCEPT
                                 !.cont = SetProp(m.cont, theDescriptor["_key"], timestamp)]
             IN  checkNumericRange(self, updated, theDescriptor, theSection, theReportIndex)
        ELSE setStatusReport(self, m, "kVALUE_NOT_A_TIMESTAMP", theDescriptor["_key"],
                             value, theReportIndex, EmptyMap)

\* value.match(new RegExp(regexpstr)) for the expression of this store: the
\* strings of the model that are lower case letters only.
match(value, regexpstr) ==
    IF regexpstr = "^[a-z]+$"
    THEN value.s \in {"ant", "b", "cat", "d", "emu", "red", "green", "blue", "teal"}
    ELSE FALSE

\* The strings that string ranges compare, in the order of the < of
\* JavaScript (by code unit: upper case before lower case).
StringOrder == <<"Zed", "ant", "b", "cat", "d", "emu">>

StringRank(str) == CHOOSE i \in 1..Len(StringOrder) : StringOrder[i] = str

\* checkRegexp
checkRegexp(self, m, theDescriptor, theSection, theReportIndex) ==
    IF regularExpression \in DOMAIN theSection
       /\ ~match(GetProp(m.cont, theDescriptor["_key"]), theSection[regularExpression])
    THEN setStatusReport(self, m, "kNO_MATCH_REGEXP", theDescriptor["_key"],
                         GetProp(m.cont, theDescriptor["_key"]), theReportIndex,
                         ("regexp" :> theSection[regularExpression]))
    ELSE Returned(TRUE, m)

\* checkStringRange
checkStringRange(self, m, theDescriptor, theSection, theReportIndex) ==
    IF rangeString \in DOMAIN theSection
    THEN LET value == GetProp(m.cont, theDescriptor["_key"])
             range == theSection[rangeString]
             rank  == StringRank(value.s)
             low   == setStatusReport(self, m, "kVALUE_LOW_RANGE", theDescriptor["_key"],
                                      value, theReportIndex, ("section" :> range))
             high  == setStatusReport(self, m, "kVALUE_HIGH_RANGE", theDescriptor["_key"],
                                      value, theReportIndex, ("section" :> range))
         IN  IF IsObject(range)
             THEN IF rangeStringMinInclusive \in DOMAIN range.p
                     /\ rank < StringRank(range.p[rangeStringMinInclusive]) THEN low
                  ELSE IF rangeStringMinExclusive \in DOMAIN range.p
                     /\ rank <= StringRank(range.p[rangeStringMinExclusive]) THEN low
                  ELSE IF rangeStringMaxInclusive \in DOMAIN range.p
                     /\ rank > StringRank(range.p[rangeStringMaxInclusive]) THEN high
                  ELSE IF rangeStringMaxExclusive \in DOMAIN range.p
                     /\ rank >= StringRank(range.p[rangeStringMaxExclusive]) THEN high
                  ELSE Returned(TRUE, m)
             ELSE setStatusReport(self, m, "kRANGE_NOT_AN_OBJECT", theDescriptor["_key"],
                                  range, theReportIndex, ("section" :> theSection))
    ELSE Returned(TRUE, m)

\* The rest of a check after an earlier one: the earlier outcome when it
\* failed or threw.
Failed(r) == r.m.threw \/ ~r.ok

\* doValidateString after checkRegexp returned r.
doValidateStringRange(self, r, theDescriptor, theSection, theReportIndex) ==
    IF Failed(r) THEN Returned(FALSE, r.m)
    ELSE checkStringRange(self, r.m, theDescriptor, theSection, theReportIndex)

\* doValidateString checking the range before the regular expression.
doValidateString_RangeFirst(self, m, theDescriptor, theSection, theReportIndex) ==
    IF IsString(GetProp(m.cont, theDescriptor["_key"]))
    THEN IF Failed(checkStringRange(self, m, theDescriptor, theSection, theReportIndex))
         THEN Returned(FALSE, checkStringRange(self, m, theDescriptor, theSection,
                                               theReportIndex).m)
         ELSE checkRegexp(self, m, theDescriptor, theSection, theReportIndex)
    ELSE setStatusReport(self, m, "kNOT_A_STRING", theDescriptor["_key"],
                         GetProp(m.cont, theDescriptor["_key"]), theReportIndex, EmptyMap)

\* doValidateString
doValidateString(self, m, theDescriptor, theSection, theReportIndex) ==
    IF IsString(GetProp(m.cont, theDescriptor["_key"]))
    THEN doValidateStringRange(self,
             checkRegexp(self, m, theDescriptor, theSection, theReportIndex),
             theDescriptor, theSection, theReportIndex)
    ELSE setStatusReport(self, m, "kNOT_A_STRING", theDescriptor["_key"],
                         GetProp(m.cont, theDescriptor["_key"]), theReportIndex, EmptyMap)

RECURSIVE SomeKind(_, _, _, _)
\* The callback of theSection[dataKind].some(...) in doResolveEnum: the
\* identifier of the first kind, in order, whose query returns one row, or
\* null.
SomeKind(self, c, value, kinds) ==
    IF kinds = << >> THEN JNull
    ELSE IF Len(queryEnumIdentifierByCode(c, self.resolver, value.s, Head(kinds)).ret) = 1
    THEN JStr(queryEnumIdentifierByCode(c, self.resolver, value.s, Head(kinds)).ret[1])
    ELSE SomeKind(self, c, value, Tail(kinds))

\* doResolveEnum after the kinds were tried, with what they resolved.
doResolveEnumFound(self, m, key, value, resolved, theReportIndex) ==
    IF resolved # JNull
    THEN Returned(TRUE, logResolvedValues([m EXCEPT !.cont = SetProp(m.cont, key, resolved)],
                                          key, value, resolved, theReportIndex))
    ELSE setStatusReport(self, m, "kVALUE_NOT_TERM", key, value, theReportIndex, EmptyMap)

\* doResolveEnum
doResolveEnum(self, m, theDescriptor, theSection, theReportIndex) ==
    IF ~self.resolve
    THEN setStatusReport(self, m, "kVALUE_NOT_TERM", theDescriptor["_key"],
                         GetProp(m.cont, theDescriptor["_key"]), theReportIndex, EmptyMap)
    ELSE doResolveEnumFound(self, m, theDescriptor["_key"],
                            GetProp(m.cont, theDescriptor["_key"]),
                            SomeKind(self, m.cache, GetProp(m.cont, theDescriptor["_key"]),
                                     theSection[dataKind].e),
                            theReportIndex)

\* doValidateEnum after getTerm returned term, on the machine m with the
\* cache the call left.
doValidateEnumTerm(self, m, theDescriptor, theSection, theReportIndex, key, value, term) ==
    IF term = JFalse
    THEN IF self.resolve
         THEN doResolveEnum(self, m, theDescriptor, theSection, theReportIndex)
         ELSE setStatusReport(self, m, "kVALUE_NOT_TERM", key, value,
                              theReportIndex, EmptyMap)
    ELSE IF sectionPath \notin DOMAIN term
    THEN setStatusReport(self, m, "kNOT_AN_ENUM", key, value, theReportIndex, EmptyMap)
    ELSE IF \E i \in 1..Len(theSection[dataKind].e) :
               \E j \in 1..Len(term[sectionPath]) :
                   term[sectionPath][j] = theSection[dataKind].e[i]
    THEN Returned(TRUE, m)
    ELSE setStatusReport(self, m, "kNOT_CORRECT_ENUM_TYPE", key, value,
                         theReportIndex, ("section" :> theSection))

\* doValidateEnum after getTerm returned got.
doValidateEnumGot(self, m, theDescriptor, theSection, theReportIndex, key, value, got) ==
    doValidateEnumTerm(self, [m EXCEPT !.cache = got.cache], theDescriptor, theSection,
                       theReportIndex, key, value, got.ret)

\* doValidateEnum after doValidateString returned str.  getTerm is called
\* with three arguments, as in validateObject.
doValidateEnumKey(self, m, theDescriptor, theSection, theReportIndex, key, value, str) ==
    IF Failed(str) THEN Returned(FALSE, str.m)
    ELSE IF ~CheckKeyValue(value)
    THEN setStatusReport(self, m, "kBAD_KEY_VALUE", key, value, theReportIndex, EmptyMap)
    ELSE IF dataKind \notin DOMAIN theSection
    THEN setStatusReport(self, m, "kMISSING_DATA_KIND", key, value, theReportIndex,
                         ("section" :> theSection))
    ELSE IF ~IsArray(theSection[dataKind])
    THEN setStatusReport(self, m, "kNOT_ARRAY_DATA_KIND", dataKind,
                         theSection[dataKind], theReportIndex,
                         ("section" :> theSection))
    ELSE doValidateEnumGot(self, m, theDescriptor, theSection, theReportIndex, key, value,
                           getTerm(m.cache, EmptyMap, value.s,
                                   self.useCache, self.cacheMissing, TRUE))

\* doValidateEnum
doValidateEnum(self, m, theDescriptor, theSection, theReportIndex) ==
    doValidateEnumKey(self, m, theDescriptor, theSection, theReportIndex,
                      theDescriptor["_key"], GetProp(m.cont, theDescriptor["_key"]),
                      doValidateString(self, m, theDescriptor, theSection, theReportIndex))

RECURSIVE EachKind(_, _, _, _, _, _, _, _, _)
\* The loop over the kinds in doValidateKey; statusReport is the name of the
\* status the loop holds ("" while it holds none).  IsEnum is called with the
\* term alone.
EachKind(self, m, kinds, term, key, value, theSection, theReportIndex, statusReport) ==
    IF kinds = << >>
    THEN IF statusReport = ""
         THEN setStatusReport(self, m, "kOK", "", JNull, 0, EmptyMap)
         ELSE setStatusReport(self, m, statusReport, key, value, theReportIndex,
                              ("section" :> theSection))
    ELSE IF Head(kinds) = anyTerm THEN Returned(TRUE, m)
    ELSE IF Head(kinds) = anyEnum
    THEN IF IsEnum(term, "") THEN Returned(TRUE, m)
         ELSE EachKind(self, m, Tail(kinds), term, key, value, theSection,
                       theReportIndex, "kNOT_AN_ENUM")
    ELSE IF Head(kinds) = anyDescriptor
    THEN IF IsDescriptor(term) THEN Returned(TRUE, m)
         ELSE EachKind(self, m, Tail(kinds), term, key, value, theSection,
                       theReportIndex, "kNOT_A_DESCRIPTOR")
    ELSE IF Head(kinds) = anyObject
    THEN IF IsStruct(term) THEN Returned(TRUE, m)
         ELSE EachKind(self, m, Tail(kinds), term, key, value, theSection,
                       theReportIndex, "kNOT_A_STRUCTURE_DEFINITION")
    ELSE setStatusReport(self, m, "kINVALID_DATA_KIND_OPTION", dataKind,
                         JStr(Head(kinds)), theReportIndex, ("section" :> theSection))

\* doValidateKey after getTerm returned got.
doValidateKeyTerm(self, m, theSection, theReportIndex, key, value, got) ==
    IF got.ret = JFalse
    THEN setStatusReport(self, [m EXCEPT !.cache = got.cache], "kVALUE_NOT_TERM",
                         key, value, theReportIndex, EmptyMap)
    ELSE EachKind(self, [m EXCEPT !.cache = got.cache], theSection[dataKind].e, got.ret,
                  key, value, theSection, theReportIndex, "")

\* doValidateKey after doValidateString returned str.
doValidateKeyValue(self, m, theSection, theReportIndex, key, value, str) ==
    IF Failed(str) THEN Returned(FALSE, str.m)
    ELSE IF value.s = ""
    THEN IF self.defNamespace /\ key = namespaceIdentifier
         THEN Returned(TRUE, m)
         ELSE setStatusReport(self, m, "kEMPTY_KEY", key, value, theReportIndex, EmptyMap)
    ELSE IF value.s = DefaultNamespaceKey
    THEN setStatusReport(self, m, "kNO_REF_DEFAULT_NAMESPACE_KEY", key, value,
                         theReportIndex, EmptyMap)
    ELSE IF ~CheckKeyValue(value)
    THEN setStatusReport(self, m, "kBAD_KEY_VALUE", key, value, theReportIndex, EmptyMap)
    ELSE IF dataKind \in DOMAIN theSection
    THEN IF IsArray(theSection[dataKind])
         THEN doValidateKeyTerm(self, m, theSection, theReportIndex, key, value,
                                getTerm(m.cache, EmptyMap, value.s,
                                        self.useCache, self.cacheMissing, TRUE))
         ELSE setStatusReport(self, m, "kNOT_ARRAY_DATA_KIND", dataKind,
                              theSection[dataKind], theReportIndex,
                              ("section" :> theSection))
    ELSE Returned(TRUE, m)

\* doValidateKey
doValidateKey(self, m, theDescriptor, theSection, theReportIndex) ==
    doValidateKeyValue(self, m, theSection, theReportIndex,
                       theDescriptor["_key"], GetProp(m.cont, theDescriptor["_key"]),
                       doValidateString(self, m, theDescriptor, theSection, theReportIndex))

\* doValidateScalar.  The store of this model holds boolean, integer,
\* timestamp, string, key and enumeration descriptors and a typeless one,
\* and none of the handle type.
doValidateScalar(self, m, theDescriptor, theSection, theReportIndex) ==
    IF ~IsArray(GetProp(m.cont, theDescriptor["_key"]))
    THEN IF scalarType \in DOMAIN theSection
         THEN LET type == theSection[scalarType]
              IN  IF type = typeBoolean
                  THEN doValidateBoolean(self, m, theDescriptor, theSection, theReportIndex)
                  ELSE IF type = typeInteger
                  THEN doValidateInteger(self, m, theDescriptor, theSection, theReportIndex)
                  ELSE IF type = typeNumber
                  THEN doValidateNumber(self, m, theDescriptor, theSection, theReportIndex)
                  ELSE IF type = typeTypestamp
                  THEN doValidateTimeStamp(self, m, theDescriptor, theSection, theReportIndex)
                  ELSE IF type = typeString
                  THEN doValidateString(self, m, theDescriptor, theSection, theReportIndex)
                  ELSE IF type = typeKey
                  THEN doValidateKey(self, m, theDescriptor, theSection, theReportIndex)
                  ELSE IF type = typeEnum
                  THEN doValidateEnum(self, m, theDescriptor, theSection, theReportIndex)
                  ELSE IF type \in {typeDate, typeStruct, typeObject, typeGeoJSON}
                  THEN Returned(TRUE, m)
                  ELSE setStatusReport(self, m, "kUNSUPPORTED", theDescriptor["_key"],
                                       theSection, theReportIndex, EmptyMap)
         ELSE IF self.expectType
         THEN setStatusReport(self, m, "kMISSING_SCALAR_DATA_TYPE", theDescriptor["_key"],
                              m.cont, theReportIndex, EmptyMap)
         ELSE Returned(TRUE, m)
    ELSE setStatusReport(self, m, "kNOT_A_SCALAR", theDescriptor["_key"],
                         GetProp(m.cont, theDescriptor["_key"]), theReportIndex, EmptyMap)

\* doValidateArray, doValidateSet, doValidateDict: each returns true.
doValidateArray(self, m, theDescriptor, theSection, theReportIndex) == Returned(TRUE, m)
doValidateSet(self, m, theDescriptor, theSection, theReportIndex)   == Returned(TRUE, m)
doValidateDict(self, m, theDescriptor, theSection, theReportIndex)  == Returned(TRUE, m)

\* doValidateDimension: the first dimension the data section has.
doValidateDimension(self, m, theDescriptor, theSection, theReportIndex) ==
    IF sectionScalar \in DOMAIN theSection
    THEN doValidateScalar(self, m, theDescriptor, theSection[sectionScalar], theReportIndex)
    ELSE IF sectionArray \in DOMAIN theSection
    THEN doValidateArray(self, m, theDescriptor, theSection[sectionArray], theReportIndex)
    ELSE IF sectionSet \in DOMAIN theSection
    THEN doValidateSet(self, m, theDescriptor, theSection[sectionSet], theReportIndex)
    ELSE IF sectionDict \in DOMAIN theSection
    THEN doValidateDict(self, m, theDescriptor, theSection[sectionDict], theReportIndex)
    ELSE setStatusReport(self, m, "kEXPECTING_DATA_DIMENSION", theDescriptor["_key"],
                         theSection, theReportIndex, EmptyMap)

-----------------------------------------------------------------------------
(* Validator: objects.                                                     *)

RECURSIVE SomeProperty(_, _, _, _)
\* The callback of Object.keys(theContainer).some(...) in validateObject,
\* applied to the properties in order until one returns true.
\* getTerm is called with three arguments: the second is doCache, the third
\* (this.cacheMissing) lands on doBatch and doMissing keeps its default.
SomeProperty(self, m, properties, theReportIndex) ==
    IF properties = << >> THEN Returned(TRUE, m)
    ELSE LET property == Head(properties)
             got  == getTerm(m.cache, EmptyMap, property,
                             self.useCache, self.cacheMissing, TRUE)
             m1   == [m EXCEPT !.cache = got.cache]
             term == got.ret
         IN  IF term = JFalse
             THEN IF self.expectTerms
                  THEN setStatusReport(self, m1, "kUNKNOWN_DESCRIPTOR", property,
                                       m1.cont, theReportIndex, EmptyMap)
                  ELSE SomeProperty(self, m1, Tail(properties), theReportIndex)
             ELSE IF ~IsDescriptor(term)
             THEN setStatusReport(self, m1, "kDESCRIPTOR_NOT_DESCRIPTOR", property,
                                  m1.cont, theReportIndex, EmptyMap)
             ELSE LET r == doValidateDimension(self, m1, term, term[sectionData],
                                               theReportIndex)
                  IN  IF r.m.threw \/ ~r.ok THEN r
                      ELSE SomeProperty(self, r.m, Tail(properties), theReportIndex)

\* validateObject(theContainer, theReportIndex): m.cont is theContainer.
validateObject(self, m, theReportIndex) ==
    LET idle == setStatusReport(self, m, "kOK", "", JNull, theReportIndex, EmptyMap)
    IN  SomeProperty(self, idle.m, m.cont.k, theReportIndex)

\* TermsCache.getDescriptor(theTermGID, doCache, doMissing): the term that
\* getTerm resolves when it has a data section, false otherwise.
getDescriptor(c, b, theTermGID, doCache, doMissing) ==
    LET got == getTerm(c, b, theTermGID, doCache, TRUE, doMissing)
    IN  IF got.ret # JFalse /\ IsDescriptor(got.ret)
        THEN got
        ELSE [got EXCEPT !.ret = JFalse]

-----------------------------------------------------------------------------
(* The validator as a state machine: the constructor, then validate().     *)
(* validate() walks the elements of a zipped array or of a bag of objects  *)
(* one at a time (the forEach callback); nothing interleaves with it.      *)

MaxLen == 3

\* The validate() calls made on one validator.
MaxCalls == 2

SeqsUpTo(S, n) == UNION { [1..k -> S] : k \in 0..n }

\* The values handed to the constructor.
ScalarValues == { JInt(3), JInt(11), JStr(EpochString), JStr("nope"), JTrue }

ZipValues == { JArr(e) : e \in SeqsUpTo({JInt(3), JInt(11), JInt(7)}, MaxLen) }

Object1(k, x)          == JObj(<<k>>, (k :> x))
Object2(k1, x1, k2, x2) == JObj(<<k1, k2>>, (k1 :> x1) @@ (k2 :> x2))

ObjectValues ==
    { JObj(<< >>, EmptyMap),
      Object1("D2", JInt(3)), Object1("D2", JInt(11)), Object1("D2", JStr("nope")),
      Object1("D3", JStr(LaterString)), Object1("D3", JStr("nope")),
      Object1("D0", JInt(3)), Object1("D_NOPE", JInt(1)), Object1("T_RULE", JInt(1)),
      Object2("D3", JStr(EpochString), "D2", JInt(11)),
      Object2("D2", JInt(11), "D3", JStr(EpochString)),
      Object2("D_NOPE", JInt(1), "D2", JInt(11)),
      Object2("D3", JStr(EpochString), "D5", JStr(LaterString)),
      Object1("D6", JStr("cat")), Object1("D6", JStr("ant")), Object1("D6", JStr("emu")),
      Object1("D6", JStr("Zed")), Object1("D6", JInt(3)),
      Object1("D4", JStr("red")), Object1("D4", JStr("green")),
      Object1("D4", JStr("blue")), Object1("D4", JStr("teal")),
      Object1("D4", JStr("color_red")), Object1("D4", JStr("D2")),
      Object1("D4", JStr("not a key")), Object1("D4", JStr("size_big")),
      Object2("D6", JStr("Zed"), "D3", JStr(EpochString)),
      Object2("D2", JInt(11), "D4", JStr("red")) }
    \cup { Object1(key, JStr(x)) :
              key \in {"D7", "D8", "D9", "D10", "D11"},
              x \in {"color_red", "D2", "T_RULE", "D_NOPE"} }
    \cup { Object1("D12", JInt(3)), Object1("D12", JInt(11)), Object1("D13", JInt(3)),
           Object1("D14", JInt(3)), Object1("D14", JArr(<<JInt(3)>>)),
           Object1("D14", JArr(<<JInt(3), JInt(11)>>)),
           Object1("D14", JArr(<<JStr("nope"), JInt(11)>>)) }
    \cup { Object1("D7", JStr("")), Object1("D7", JStr(DefaultNamespaceKey)),
           Object1("D9", JStr("not a key")), Object1("D9", JInt(3)) }

BagValues ==
    { JArr(e) : e \in SeqsUpTo({ Object1("D3", JStr(EpochString)),
                                 Object1("D2", JInt(11)) }, MaxLen) }
    \cup { JArr(<<Object1("D2", JInt(3)), Object1("D_NOPE", JInt(1))>>),
           JArr(<<Object2("D3", JStr(EpochString), "D5", JStr(LaterString))>>),
           JArr(<<Object1("D4", JStr("red")), Object1("D4", JStr("blue"))>>),
           JArr(<<Object1("D4", JStr("green")), Object1("D4", JStr("red"))>>),
           JArr(<<Object2("D6", JStr("Zed"), "D3", JStr(EpochString)),
                  Object2("D3", JStr(EpochString), "D6", JStr("ant"))>>) }

Values == ScalarValues \cup ZipValues \cup ObjectValues \cup BagValues

\* The descriptor argument: none, descriptors, a term that is no
\* descriptor, an unknown identifier.
TermArgs == { "", "D2", "D3", "T_RULE", "D_NOPE" }

\* The state the validation methods start from.
Machine(report, cont, c) ==
    [report |-> report, cont |-> cont, cache |-> c, threw |-> FALSE, error |-> ""]

\* new Validator(theValue, theTerm, doZip, doCache, doCacheMissing,
\*               doOnlyTerms, doDataType, doResolve)
Construct(theValue, theTerm, doZip, doCache, doCacheMissing, doOnlyTerms, doDataType, doResolve) ==
    /\ v.phase = "none"
    /\ LET c0  == IF cache.isNull THEN EmptyMap ELSE cache.map
           got == getDescriptor(c0, EmptyMap, theTerm, doCache, doCacheMissing)
           accepted ==
               IF theTerm # ""
               THEN got.ret # JFalse /\ (doZip => IsArray(theValue))
               ELSE IF IsArray(theValue)
               THEN \A i \in 1..Len(theValue.e) : IsObject(theValue.e[i])
               ELSE ~doZip /\ IsObject(theValue)
       IN  /\ cache' = CacheOf(IF theTerm # "" THEN got.cache ELSE c0)
           /\ v' = IF accepted
                   THEN [phase |-> "ready", input |-> theValue, value |-> theValue,
                         hasTerm |-> theTerm # "",
                         term |-> IF theTerm # "" THEN got.ret ELSE JUndef,
                         zip |-> doZip, resolve |-> doResolve, useCache |-> doCache,
                         cacheMissing |-> doCacheMissing, expectTerms |-> doOnlyTerms,
                         expectType |-> doDataType, language |-> language,
                         defNamespace |-> FALSE, resolver |-> localIdentifier,
                         report |-> ReportUnset, ret |-> JUndef,
                         idx |-> 0, status |-> TRUE, error |-> "",
                         calls |-> 0, first |-> ReportUnset]
                   ELSE [phase |-> "failed"]
    /\ UNCHANGED <<insts, batch, lastCall, hist, inflight>>

\* What a validation method left behind, and where validate() stands then.
Outcome(r, value, status, finished) ==
    [v EXCEPT !.report = r.m.report,
              !.value  = value,
              !.status = status,
              !.error  = r.m.error,
              !.phase  = IF r.m.threw THEN "threw"
                         ELSE IF finished THEN "done" ELSE "running",
              !.ret    = IF ~r.m.threw /\ finished THEN JBool(status) ELSE JUndef]

\* The observer's note of the report the first validate() call left.
Noted(w) ==
    IF w.phase = "done" /\ w.calls = 1 THEN [w EXCEPT !.first = w.report] ELSE w

\* validate(), up to the first element of a zipped array or bag; the whole
\* of it in the other modes.  With a descriptor and without the zip flag no
\* branch is taken and the method returns nothing.
Validate ==
    /\ v.phase \in {"ready", "done"}
    /\ v.calls < MaxCalls
    /\ \E calls \in { v.calls + 1 },
          begin \in { Returned(TRUE, Machine(ReportArray(<< >>), v.value, cache.map)) },
          object \in { IF ~v.zip /\ ~v.hasTerm /\ IsObject(v.value)
                       THEN validateObject(v, Machine(v.report, v.value, cache.map), 0)
                       ELSE Returned(TRUE, Machine(v.report, v.value, cache.map)) } :
           IF v.zip
           THEN IF ~v.hasTerm
                THEN /\ v' = [v EXCEPT !.phase = "threw", !.error = "TypeError",
                                       !.calls = calls]
                     /\ UNCHANGED cache
                ELSE /\ v' = Noted([Outcome(begin, v.value, TRUE, Len(v.value.e) = 0)
                                       EXCEPT !.idx = 1, !.calls = calls])
                     /\ UNCHANGED cache
           ELSE IF ~v.hasTerm
           THEN IF IsArray(v.value)
                THEN /\ v' = Noted([Outcome(begin, v.value, TRUE, Len(v.value.e) = 0)
                                       EXCEPT !.idx = 1, !.calls = calls])
                     /\ UNCHANGED cache
                ELSE /\ v' = Noted([Outcome(object, object.m.cont, object.ok, TRUE)
                                       EXCEPT !.calls = calls])
                     /\ cache' = CacheOf(object.m.cache)
           ELSE /\ v' = Noted([v EXCEPT !.phase = "done", !.ret = JUndef,
                                             !.calls = calls])
                /\ UNCHANGED cache
    /\ UNCHANGED <<insts, batch, lastCall, hist, inflight>>

\* The forEach callback of validateZipped for the element at v.idx.
\* this.term_key is not a property of the validator: the descriptor
\* argument of the idle slot is undefined and takes its default ''.
ZippedElement ==
    /\ v.phase = "running" /\ v.zip
    /\ \E index \in { v.idx } :
       \E idle \in { setStatusReport(v, Machine(v.report, v.value, cache.map),
                                     "kOK", "", JNull, index, EmptyMap) } :
       \E r \in { doValidateDimension(v, idle.m, v.term, v.term[sectionData], index) } :
           /\ v' = Noted([Outcome(r, r.m.cont, v.status /\ r.ok, index = Len(v.value.e))
                             EXCEPT !.idx = index + 1])
           /\ cache' = CacheOf(r.m.cache)
    /\ UNCHANGED <<insts, batch, lastCall, hist, inflight>>

\* The forEach callback of validateObjects for the element at v.idx.
ObjectsElement ==
    /\ v.phase = "running" /\ ~v.zip
    /\ \E index \in { v.idx } :
       \E value \in { v.value.e[index] } :
       \E r \in { IF IsObject(value)
                  THEN validateObject(v, Machine(v.report, value, cache.map), index)
                  ELSE setStatusReport(v, Machine(v.report, value, cache.map),
                                       "kNOT_AN_OBJECT", "", value, index, EmptyMap) } :
       \E status \in { IF IsObject(value) THEN v.status /\ r.ok ELSE v.status } :
           /\ v' = Noted([Outcome(r, JArr([v.value.e EXCEPT ![index] = r.m.cont]),
                                  status, index = Len(v.value.e))
                             EXCEPT !.idx = index + 1])
           /\ cache' = CacheOf(r.m.cache)
    /\ UNCHANGED <<insts, batch, lastCall, hist, inflight>>

NextV ==
    \/ /\ v.phase = "none"
       /\ \E theValue \in Values, theTerm \in TermArgs,
             doZip \in BOOLEAN, doCache \in BOOLEAN, doCacheMissing \in BOOLEAN,
             doOnlyTerms \in BOOLEAN, doDataType \in BOOLEAN, doResolve \in BOOLEAN :
               Construct(theValue, theTerm, doZip, doCache, doCacheMissing,
                         doOnlyTerms, doDataType, doResolve)
    \/ Validate
    \/ ZippedElement
    \/ ObjectsElement

SpecV == Init /\ [][NextV]_vars

-----------------------------------------------------------------------------
(* Claims on the validator, checked under SpecV.                           *)

\* A slot that holds the idle status.
SlotOK(slot) == "status" \in DOMAIN slot /\ slot["status"].code = 0

\* Every slot of a report holds the idle status.
AllSlotsOK(rep) ==
    IF rep.t = "array" THEN \A i \in 1..Len(rep.e) : SlotOK(rep.e[i])
    ELSE IF rep.t = "object" THEN SlotOK(rep.s)
    ELSE TRUE

\* C5: in every mode validate returns a boolean, and it returns true if and
\* only if every slot of the resulting report has status code 0.
C5_ReturnIffAllSlotsOK ==
    v.phase = "done" => v.ret = JBool(AllSlotsOK(v.report))

\* The status code of checking one value, wrapped as the descriptor's
\* property, against the descriptor's data section.
CheckOf(self, term, x) ==
    LET wrapper == Object1(term["_key"], x)
        idle == setStatusReport(self, Machine(ReportArray(<< >>), wrapper, EmptyMap),
                                "kOK", "", JNull, 1, EmptyMap)
        r    == doValidateDimension(self, idle.m, term, term[sectionData], 1)
    IN  r.m.report.e[1]["status"].code

\* C6: in zipped mode the report has one slot per input element, slot i holds
\* the outcome of checking element i against the descriptor's data section,
\* and validate returns whether all of them are OK ([3, 11, 7] against the
\* integer 0..10: OK, VALUE_HIGH_RANGE, OK, false).
C6_ZippedOutcome ==
    (v.phase = "done" /\ v.zip) =>
        /\ v.report.t = "array"
        /\ Len(v.report.e) = Len(v.input.e)
        /\ \A i \in 1..Len(v.input.e) :
              /\ "status" \in DOMAIN v.report.e[i]
              /\ v.report.e[i]["status"].code = CheckOf(v, v.term, v.input.e[i])
        /\ v.ret = JBool(\A i \in 1..Len(v.input.e) :
                            CheckOf(v, v.term, v.input.e[i]) = 0)

C8_DescriptorValue ==
    (v.phase = "done" /\ v.hasTerm /\ ~v.zip) =>
        /\ v.report.t = "object"
        /\ "status" \in DOMAIN v.report.s
        /\ v.report.s["status"].code = CheckOf(v, v.term, v.input)
        /\ v.ret = JBool(CheckOf(v, v.term, v.input) = 0)

\* The single slot of the report holds the named status.
SlotNames(rep, name) ==
    /\ rep.t = "object"
    /\ "status" \in DOMAIN rep.s
    /\ rep.s["status"].message.of = name

\* C9: object mode, for the first key of the object: unresolved and
\* expectTerms set gives UNKNOWN_DESCRIPTOR with the key as slot descriptor;
\* resolved to a term without data section gives DESCRIPTOR_NOT_DESCRIPTOR;
\* and for an object of one key: an unresolved key is skipped when
\* expectTerms is not set, a descriptor has its value checked.
C9_ObjectMode ==
    (v.phase \in {"done", "threw"} /\ ~v.zip /\ ~v.hasTerm
        /\ IsObject(v.input) /\ Len(v.input.k) >= 1) =>
        LET key   == v.input.k[1]
            term  == StoreQuery(key)[1]
            alone == Len(v.input.k) = 1
        IN  IF term = JFalse
            THEN IF v.expectTerms
                 THEN /\ v.phase = "done"
                      /\ SlotNames(v.report, "kUNKNOWN_DESCRIPTOR")
                      /\ v.report.s["descriptor"] = key
                      /\ v.ret = JFalse
                 ELSE alone => /\ v.phase = "done"
                               /\ SlotNames(v.report, "kOK")
                               /\ v.ret = JTrue
            ELSE IF ~IsDescriptor(term)
            THEN /\ v.phase = "done"
                 /\ SlotNames(v.report, "kDESCRIPTOR_NOT_DESCRIPTOR")
                 /\ v.ret = JFalse
            ELSE alone => /\ v.phase = "done"
                          /\ v.ret = JBool(CheckOf(v, term, v.input.p[key]) = 0)

\* C10: validate never raises the unknown status code error: every status
\* name the validator writes builds a slot.
C10_NoUnknownStatusCode ==
    ~(v.phase = "threw" /\ v.error = UnknownStatus)

\* C11: when resolve is not set, validate leaves the input value as it was,
\* and a second validate call on the same validator leaves a report equal to
\* the one of the first call.
C11_PureWithoutResolve ==
    (v.phase = "done" /\ ~v.resolve) =>
        /\ v.value = v.input
        /\ v.calls = 2 => v.report = v.first

\* The containers validate() walked without a descriptor, each with its
\* slot: the object and the single slot, or the elements of the bag and
\* their indexed slots.
Walked ==
    IF IsArray(v.input)
    THEN { [slot |-> v.report.e[i], in |-> v.input.e[i], out |-> v.value.e[i]] :
             i \in 1..Len(v.input.e) }
    ELSE { [slot |-> v.report.s, in |-> v.input, out |-> v.value] }

\* The property is one of a timestamp descriptor and its value a string
\* that parses as a date.
IsDateString(object, key) ==
    /\ LET term == StoreQuery(key)[1]
       IN  /\ term # JFalse
           /\ IsDescriptor(term)
           /\ sectionScalar \in DOMAIN term[sectionData]
           /\ scalarType \in DOMAIN term[sectionData][sectionScalar]
           /\ term[sectionData][sectionScalar][scalarType] = typeTypestamp
    /\ IsString(object.p[key])
    /\ object.p[key].s \in DOMAIN DateValue

\* The changes of the slot hold the entry of the resolution of a property.
HasChange(slot, key, original, resolved) ==
    /\ "changes" \in DOMAIN slot
    /\ md5(key, original) \in DOMAIN slot["changes"]
    /\ slot["changes"][md5(key, original)] =
          [field |-> key, original |-> original, resolved |-> resolved]

\* C12: with resolve set, a date string under a timestamp descriptor (here
\* the first property of its object) is replaced in the input by its epoch
\* milliseconds and the slot's changes hold the entry keyed by the digest of
\* descriptor and original; the slot is OK when nothing else was checked.
\* For an indexed slot and for the single slot.
C12_TimestampRoundTrip ==
    (v.phase = "done" /\ v.calls = 1 /\ v.resolve /\ ~v.zip /\ ~v.hasTerm) =>
        \A w \in Walked :
            (Len(w.in.k) >= 1 /\ IsDateString(w.in, w.in.k[1])) =>
                LET key      == w.in.k[1]
                    original == w.in.p[key]
                    resolved == JInt(DateValue[original.s])
                IN  /\ w.out.p[key] = resolved
                    /\ HasChange(w.slot, key, original, resolved)
                    /\ Len(w.in.k) = 1 => SlotOK(w.slot)

\* The identifier enum resolution is to choose for a code: the one the first
\* kind, in list order, with exactly one match returns; null when every kind
\* returns none or several.
RECURSIVE FirstUnique(_, _, _)
FirstUnique(resolver, code, kinds) ==
    IF kinds = << >> THEN JNull
    ELSE LET ids == QueryEnumIdentifierByCode(EmptyMap, resolver, code, Head(kinds)).ret
         IN  IF Len(ids) = 1 THEN JStr(ids[1])
             ELSE FirstUnique(resolver, code, Tail(kinds))

\* C13: with resolve set, for an object whose one property is the
\* enumeration descriptor with a string that is no term: if some kind of the
\* descriptor returns exactly one identifier for the code, the value is
\* rewritten to the identifier of the first such kind and the slot is OK;
\* otherwise the slot holds VALUE_NOT_TERM and the value is unchanged.
C13_EnumResolution ==
    (/\ v.phase \in {"done", "threw"} /\ v.calls = 1
     /\ v.resolve /\ ~v.zip /\ ~v.hasTerm
     /\ IsObject(v.input) /\ v.input.k = <<"D4">>
     /\ IsString(v.input.p["D4"])
     /\ CheckKeyValue(v.input.p["D4"])
     /\ StoreQuery(v.input.p["D4"].s)[1] = JFalse) =>
        LET code  == v.input.p["D4"].s
            kinds == StoreTerms["D4"][sectionData][sectionScalar][dataKind].e
            id    == FirstUnique(v.resolver, code, kinds)
        IN  /\ v.phase = "done"
            /\ IF id # JNull
               THEN /\ v.value.p["D4"] = id
                    /\ SlotOK(v.report.s)
                    /\ v.ret = JTrue
               ELSE /\ v.value = v.input
                    /\ SlotNames(v.report, "kVALUE_NOT_TERM")
                    /\ v.ret = JFalse

\* The status code of checking one property of an object on its own: 0 for
\* a property that is skipped as no descriptor.
KeyCode(self, key, x) ==
    LET term == StoreQuery(key)[1]
    IN  IF term = JFalse \/ ~IsDescriptor(term) THEN 0
        ELSE CheckOf(self, term, x)

\* The positions of the properties of an object whose check fails.
Failing(self, object) ==
    { i \in 1..Len(object.k) : KeyCode(self, object.k[i], object.p[object.k[i]]) # 0 }

\* C14: the status of a failing slot is the one of the first failing check
\* in traversal order: of the first failing property of the object, and for
\* a string that fails both the regular expression and the range, of the
\* regular expression; the properties after the first failing one are left
\* as they were, not resolved.
C14_FirstErrorWins ==
    (v.phase = "done" /\ v.calls = 1 /\ ~v.zip /\ ~v.hasTerm) =>
        \A w \in Walked :
            (IsObject(w.in) /\ Failing(v, w.in) # {}) =>
                LET first == CHOOSE i \in Failing(v, w.in) :
                                 \A j \in Failing(v, w.in) : i <= j
                    key   == w.in.k[first]
                IN  /\ "status" \in DOMAIN w.slot
                    /\ w.slot["status"].code = KeyCode(v, key, w.in.p[key])
                    /\ w.slot["descriptor"] = key
                    /\ (key = "D6" /\ IsString(w.in.p[key])
                           /\ ~match(w.in.p[key], "^[a-z]+$")) =>
                          w.slot["status"].code = statusRecords["kNO_MATCH_REGEXP"]
                    /\ \A i \in 1..Len(w.in.k) :
                          i > first => w.out.p[w.in.k[i]] = w.in.p[w.in.k[i]]

\* With resolve set, a string that fails the regular expression and the
\* range was followed by a date string: the slot holds the regular
\* expression status and the date string was not resolved.
C14_Witness ==
    /\ v.phase = "done" /\ v.resolve /\ ~v.zip /\ ~v.hasTerm
    /\ v.input = Object2("D6", JStr("Zed"), "D3", JStr(EpochString))
    /\ v.report.s["status"].code = statusRecords["kNO_MATCH_REGEXP"]
    /\ StringRank("Zed") < StringRank("b")
    /\ v.value.p["D3"] = JStr(EpochString)

\* The data section of the scalar of a key descriptor of the store, or of
\* any other descriptor of it.
ScalarOf(key) == StoreTerms[key][sectionData][sectionScalar]

\* validate() ran on an object whose one property is a descriptor of the key
\* type with a string.
KeyRun ==
    /\ v.phase \in {"done", "threw"} /\ v.calls = 1
    /\ ~v.zip /\ ~v.hasTerm
    /\ IsObject(v.input) /\ Len(v.input.k) = 1
    /\ v.input.k[1] \in {"D7", "D8", "D9", "D10", "D11"}
    /\ IsString(v.input.p[v.input.k[1]])

\* The string of the run passes the default namespace and key grammar
\* checks.
KeyRunValue == v.input.p[v.input.k[1]]

KeyRunWellFormed ==
    /\ KeyRunValue.s # ""
    /\ KeyRunValue.s # DefaultNamespaceKey
    /\ CheckKeyValue(KeyRunValue)

\* C21: a well formed key value that is no term is rejected with
\* VALUE_NOT_TERM, with and without kinds in the data section.
C21_KeyMustBeTerm ==
    (KeyRun /\ KeyRunWellFormed /\ StoreQuery(KeyRunValue.s)[1] = JFalse) =>
        /\ v.phase = "done"
        /\ SlotNames(v.report, "kVALUE_NOT_TERM")
        /\ v.ret = JFalse
        /\ v.value = v.input

\* A term satisfies a kind: any term, a term with a path, with data, with a
\* rule, or a term whose path holds the named enumeration type.
Satisfies(term, kind) ==
    IF kind = anyTerm THEN TRUE
    ELSE IF kind = anyEnum
    THEN sectionPath \in DOMAIN term /\ term[sectionPath] # << >>
    ELSE IF kind = anyDescriptor THEN sectionData \in DOMAIN term
    ELSE IF kind = anyObject THEN sectionRule \in DOMAIN term
    ELSE /\ sectionPath \in DOMAIN term
         /\ \E j \in 1..Len(term[sectionPath]) : term[sectionPath][j] = kind

\* The status of a wildcard kind that is not satisfied.
KindError ==
    (anyEnum :> "kNOT_AN_ENUM") @@ (anyDescriptor :> "kNOT_A_DESCRIPTOR")
    @@ (anyObject :> "kNOT_A_STRUCTURE_DEFINITION")

\* C22: a key value that is a term, under a descriptor with a list of kinds,
\* is accepted if and only if the term satisfies one of the kinds; when it
\* satisfies none the slot holds the failure of the last kind of the list.
C22_KeyKinds ==
    (/\ KeyRun /\ KeyRunWellFormed
     /\ StoreQuery(KeyRunValue.s)[1] # JFalse
     /\ dataKind \in DOMAIN ScalarOf(v.input.k[1])) =>
        LET term  == StoreQuery(KeyRunValue.s)[1]
            kinds == ScalarOf(v.input.k[1])[dataKind].e
            last  == kinds[Len(kinds)]
        IN  /\ v.phase = "done"
            /\ v.value = v.input
            /\ IF \E i \in 1..Len(kinds) : Satisfies(term, kinds[i])
               THEN v.ret = JTrue /\ SlotOK(v.report.s)
               ELSE /\ v.ret = JFalse
                    /\ ~SlotOK(v.report.s)
                    /\ last \in DOMAIN KindError => SlotNames(v.report, KindError[last])

\* C23: an enumeration value that is a term is accepted if and only if the
\* term has a path that shares an element with the kinds of the descriptor;
\* a term without path gives NOT_AN_ENUM, a term with a disjoint path gives
\* NOT_CORRECT_ENUM_TYPE, and the value is left as it was.
C23_EnumOfTerm ==
    (/\ v.phase \in {"done", "threw"} /\ v.calls = 1 /\ ~v.zip /\ ~v.hasTerm
     /\ IsObject(v.input) /\ v.input.k = <<"D4">>
     /\ IsString(v.input.p["D4"]) /\ CheckKeyValue(v.input.p["D4"])
     /\ StoreQuery(v.input.p["D4"].s)[1] # JFalse) =>
        LET term  == StoreQuery(v.input.p["D4"].s)[1]
            kinds == ScalarOf("D4")[dataKind].e
        IN  /\ v.phase = "done"
            /\ v.value = v.input
            /\ "changes" \notin DOMAIN v.report.s
            /\ IF sectionPath \notin DOMAIN term
               THEN SlotNames(v.report, "kNOT_AN_ENUM") /\ v.ret = JFalse
               ELSE IF \E i \in 1..Len(kinds) : Satisfies(term, kinds[i])
               THEN SlotOK(v.report.s) /\ v.ret = JTrue
               ELSE SlotNames(v.report, "kNOT_CORRECT_ENUM_TYPE") /\ v.ret = JFalse

-----------------------------------------------------------------------------
(* The numeric range check on its own: doValidateInteger applied to the    *)
(* integers and the ranges of a bounded set.                               *)

\* The largest bound of a range; the values go one below 0 and one above it.
MaxBound == 2

\* The ranges: every choice of the four bounds, each absent (-1 below) or
\* one of 0..MaxBound, and two values that are no objects.
Ranges ==
    LET names == <<rangeNumberMinInclusive, rangeNumberMinExclusive,
                   rangeNumberMaxInclusive, rangeNumberMaxExclusive>>
        set   == { names[i] : i \in 1..4 }
    IN  { JObj(SelectSeq(names, LAMBDA n : f[n] >= 0),
               [n \in { x \in set : f[x] >= 0 } |-> f[n]]) :
            f \in [set -> -1..MaxBound] }
        \cup { JInt(1), JStr("0..2") }

\* doValidateInteger on the property D2 of an object, for a data section
\* with the range, once; the call and what it left are recorded in lastCall.
CheckRange(value, range) ==
    /\ lastCall = NoCall
    /\ LET section == (scalarType :> typeInteger) @@ (rangeNumber :> range)
           r == doValidateInteger([language |-> language],
                                  Machine(ReportUnset, Object1("D2", JInt(value)), EmptyMap),
                                  StoreTerms["D2"], section, 0)
       IN  lastCall' = [op |-> "checkNumericRange", value |-> value, range |-> range,
                        section |-> section, ok |-> r.ok, threw |-> r.m.threw,
                        report |-> r.m.report]
    /\ UNCHANGED <<cache, insts, batch, hist, v, inflight>>

NextR == \E value \in -1..(MaxBound + 1), range \in Ranges : CheckRange(value, range)

SpecR == Init /\ [][NextR]_vars

\* The reference evaluation: the status of the first bound that fails, in
\* the order minInclusive, minExclusive, maxInclusive, maxExclusive.
RangeReference(value, range) ==
    IF ~IsObject(range) THEN "kRANGE_NOT_AN_OBJECT"
    ELSE LET has(n) == n \in DOMAIN range.p
         IN  IF has(rangeNumberMinInclusive) /\ value < range.p[rangeNumberMinInclusive]
             THEN "kVALUE_LOW_RANGE"
             ELSE IF has(rangeNumberMinExclusive) /\ value <= range.p[rangeNumberMinExclusive]
             THEN "kVALUE_LOW_RANGE"
             ELSE IF has(rangeNumberMaxInclusive) /\ value > range.p[rangeNumberMaxInclusive]
             THEN "kVALUE_HIGH_RANGE"
             ELSE IF has(rangeNumberMaxExclusive) /\ value >= range.p[rangeNumberMaxExclusive]
             THEN "kVALUE_HIGH_RANGE"
             ELSE "kOK"

\* C24: for every integer and every range the outcome of the numeric range
\* check is the reference evaluation: the first failing bound in the fixed
\* order with the range attached as section, acceptance without a report
\* when no bound fails, RANGE_NOT_AN_OBJECT for a range that is no object.
C24_NumericRange ==
    lastCall.op = "checkNumericRange" =>
        LET ref == RangeReference(lastCall.value, lastCall.range)
        IN  /\ ~lastCall.threw
            /\ lastCall.ok = (ref = "kOK")
            /\ IF ref = "kOK" THEN lastCall.report = ReportUnset
               ELSE /\ SlotNames(lastCall.report, ref)
                    /\ lastCall.report.s["descriptor"] = "D2"
                    /\ IF ref = "kRANGE_NOT_AN_OBJECT"
                       THEN lastCall.report.s["value"] = lastCall.range
                       ELSE /\ lastCall.report.s["value"] = JInt(lastCall.value)
                            /\ lastCall.report.s["section"] = lastCall.range

\* A value below the inclusive minimum and above the inclusive maximum of an
\* inverted range was reported low.
C24_Witness ==
    /\ lastCall.op = "checkNumericRange"
    /\ IsObject(lastCall.range)
    /\ rangeNumberMinInclusive \in DOMAIN lastCall.range.p
    /\ rangeNumberMaxInclusive \in DOMAIN lastCall.range.p
    /\ lastCall.value < lastCall.range.p[rangeNumberMinInclusive]
    /\ lastCall.value > lastCall.range.p[rangeNumberMaxInclusive]
    /\ SlotNames(lastCall.report, "kVALUE_LOW_RANGE")

\* validate() ran on an object whose one property is a descriptor of the
\* store.
DescriptorRun ==
    /\ v.phase \in {"done", "threw"} /\ v.calls = 1
    /\ ~v.zip /\ ~v.hasTerm
    /\ IsObject(v.input) /\ Len(v.input.k) = 1
    /\ v.input.k[1] \in DOMAIN StoreTerms
    /\ IsDescriptor(StoreTerms[v.input.k[1]])

\* C25: a data section with none of the dimension tags scalar, array, set
\* and dict, and one with two or more of them, gives
\* EXPECTING_DATA_DIMENSION, and the value is not checked.
C25_OneDimension ==
    DescriptorRun =>
        LET section == StoreTerms[v.input.k[1]][sectionData]
            tags == { t \in {sectionScalar, sectionArray, sectionSet, sectionDict} :
                        t \in DOMAIN section }
        IN  Cardinality(tags) # 1 =>
                /\ v.phase = "done"
                /\ SlotNames(v.report, "kEXPECTING_DATA_DIMENSION")
                /\ v.ret = JFalse

\* C26: under an array descriptor a value that is no array gives
\* NOT_AN_ARRAY, and an array is accepted if and only if every element
\* passes the check of the elements section; the slot of a rejected array
\* holds the status of its first failing element.
C26_ArrayElements ==
    (DescriptorRun /\ v.input.k = <<"D14">>) =>
        LET x == v.input.p["D14"]
            element == Descriptor("D14", StoreTerms["D14"][sectionData][sectionArray])
            failing == { i \in 1..Len(x.e) : CheckOf(v, element, x.e[i]) # 0 }
        IN  /\ v.phase = "done"
            /\ IF ~IsArray(x)
               THEN SlotNames(v.report, "kNOT_AN_ARRAY") /\ v.ret = JFalse
               ELSE IF failing = {}
               THEN SlotOK(v.report.s) /\ v.ret = JTrue
               ELSE /\ v.ret = JFalse
                    /\ v.report.s["status"].code =
                          CheckOf(v, element,
                                  x.e[CHOOSE i \in failing : \A j \in failing : i <= j])

-----------------------------------------------------------------------------
(* getTerm and getTerms on instances whose batches stay empty, against the  *)
(* unchanging store.                                                        *)

\* The identifiers of the calls: a stored term and one the store lacks.
ListIds == {"color_red", "D_NOPE"}

\* The longest list getTerms is called with.
MaxList == 2

\* The call has returned r: the cache map is the one it left, and the call
\* is recorded.
GetTermsReturn(list, doCache, r) ==
    /\ cache' = CacheOf(r.cache)
    /\ lastCall' = [op |-> "getTerms", list |-> list, doCache |-> doCache,
                    ret |-> r.ret, before |-> cache.map]
    /\ UNCHANGED <<insts, batch, hist, v, inflight>>

\* instance i calls getTerms(list, doCache, doBatch, doMissing).
GetTerms(i, list, doCache, doBatch, doMissing) ==
    /\ i \in insts
    /\ GetTermsReturn(list, doCache,
                      getTerms(cache.map, batch[i], list, doCache, doBatch, doMissing))

NextT ==
    \/ \E i \in 1..NumInst : NewTermsCache(i)
    \/ \E i \in 1..NumInst, id \in ListIds, doCache, doBatch, doMissing \in BOOLEAN :
          GetTerm(i, id, doCache, doBatch, doMissing)
    \/ \E i \in 1..NumInst, list \in SeqsUpTo(ListIds, MaxList), doCache, doBatch, doMissing \in BOOLEAN :
          GetTerms(i, list, doCache, doBatch, doMissing)

SpecT == Init /\ [][NextT]_vars

\* The store's projection of an identifier: the key, data and rule
\* sections of its document and its enumeration paths, or absent.
StoreProjection(id) ==
    IF id \notin DOMAIN StoreTerms THEN JFalse
    ELSE LET path == FlattenPaths(StoreEdges, id)
         IN  [x \in (DOMAIN StoreTerms[id] \cap {"_key", sectionData, sectionRule})
                    \cup (IF Len(path) > 0 THEN {sectionPath} ELSE {}) |->
                 IF x = sectionPath THEN path ELSE StoreTerms[id][x]]

\* C28: with an unchanging store and empty batches, after any sequence of
\* getTerm and getTerms calls with any flags on any instances, every entry
\* of the global cache is the store's projection of its identifier (the
\* absent sentinel only for identifiers the store lacks), every value a call
\* returned is that projection, and getTerm with doCache set returns what
\* getTerm with doCache unset returns.
C28_CacheTransparency ==
    /\ \A id \in DOMAIN cache.map : cache.map[id] = StoreProjection(id)
    /\ lastCall.op = "getTerm" => lastCall.ret = StoreProjection(lastCall.id)
    /\ lastCall.op = "getTerms" =>
          /\ DOMAIN lastCall.ret = { lastCall.list[n] : n \in 1..Len(lastCall.list) }
          /\ \A id \in DOMAIN lastCall.ret : lastCall.ret[id] = StoreProjection(id)
    /\ \A i \in insts, id \in ListIds, doBatch, doMissing \in BOOLEAN :
          getTerm(cache.map, batch[i], id, TRUE, doBatch, doMissing).ret
              = getTerm(cache.map, batch[i], id, FALSE, doBatch, doMissing).ret

\* A getTerms call that the cache served for both a stored term and a
\* recorded miss, on an instance constructed after the entries were written.
C28_Witness ==
    /\ lastCall.op = "getTerms" /\ lastCall.doCache
    /\ "color_red" \in DOMAIN lastCall.before /\ lastCall.before["color_red"] # JFalse
    /\ "D_NOPE" \in DOMAIN lastCall.before /\ lastCall.before["D_NOPE"] = JFalse
    /\ DOMAIN lastCall.ret = ListIds
    /\ cache.map = lastCall.before

-----------------------------------------------------------------------------
(* The global cache and the batches, seen from several instances (Spec).   *)

\* A getTerm call has just returned.
Called == lastCall' # lastCall /\ lastCall'.op = "getTerm"

\* What a call of an instance returns, given the global cache as it is,
\* whichever instance wrote it, the batch of that instance alone, and the
\* store.
VisibleTo(i, id, doCache, doBatch) ==
    IF doCache /\ id \in DOMAIN cache.map THEN cache.map[id]
    ELSE IF doBatch /\ id \in DOMAIN batch[i] THEN batch[i][id]
    ELSE StoreProjection(id)

\* C29: an entry of the global cache is served to every instance that asks
\* with doCache set, whichever instance wrote it and whenever the asking
\* instance was constructed: constructing an instance leaves an existing
\* global cache as it is.  A record staged in the batch of one instance
\* changes the batch of no other instance, and what getTerm returns on an
\* instance depends on the global cache, its own batch and the store only.
C29_Visibility ==
    [][ /\ (insts' # insts /\ ~cache.isNull) => cache' = cache
        /\ \A i \in 1..NumInst :
              batch'[i] # batch[i] => \A j \in 1..NumInst \ {i} : batch'[j] = batch[j]
        /\ Called =>
              /\ lastCall'.ret = VisibleTo(lastCall'.inst, lastCall'.id,
                                           lastCall'.doCache, lastCall'.doBatch)
              /\ \A id \in DOMAIN cache.map : cache'.map[id] = cache.map[id]
      ]_vars

\* An instance asked for the term another instance has staged, with doBatch
\* set, and was told the store lacks it, while the cache holds an entry
\* written before.
C29_Witness ==
    /\ IsCall /\ lastCall.id = "T_NEW" /\ lastCall.doBatch /\ ~lastCall.doCache
    /\ lastCall.ret = JFalse
    /\ "T_NEW" \notin DOMAIN batch[lastCall.inst]
    /\ \E j \in insts \ {lastCall.inst} : "T_NEW" \in DOMAIN batch[j]
    /\ "color_red" \in DOMAIN cache.map
    /\ Cardinality(insts) = NumInst

\* C15: a validator is constructed only from a consistent combination: never
\* zip without a descriptor, never zip with a value that is no array, never
\* without a descriptor a value that is neither an object nor an array of
\* objects.
C15_ConstructionRejects ==
    (v.phase \notin {"none", "failed"}) =>
        /\ v.zip => v.hasTerm
        /\ v.zip => IsArray(v.input)
        /\ ~v.hasTerm =>
              \/ IsObject(v.input)
              \/ /\ IsArray(v.input)
                 /\ \A i \in 1..Len(v.input.e) : IsObject(v.input.e[i])

\* C19: after validate on a validator with useCache set and cacheMissing not
\* set, the global cache holds no identifier as absent.
C19_CachesOnlyResolved ==
    (v.phase = "done" /\ v.useCache /\ ~v.cacheMissing) =>
        \A id \in DOMAIN cache.map : cache.map[id] # JFalse

\* C20: logging a resolution only adds an entry to the changes of the slot:
\* after validate every walked slot still has its status, and holds the
\* changes entry of every property that was resolved in its container.
C20_LogOnlyInserts ==
    (v.phase = "done" /\ v.calls = 1 /\ ~v.zip /\ ~v.hasTerm) =>
        \A w \in Walked :
            /\ "status" \in DOMAIN w.slot
            /\ \A key \in DOMAIN w.in.p :
                  w.out.p[key] # w.in.p[key] =>
                      HasChange(w.slot, key, w.in.p[key], w.out.p[key])

\* C30: after validate has returned, every property of a walked container
\* whose value the validator rewrote (a date string to epoch milliseconds, an
\* enumeration code to a term identifier) has its entry, with the original
\* and the resolved value, in the changes of the container's slot; also when
\* a later check of the same container failed and when several properties
\* of the container were resolved.
C30_AuditComplete ==
    (v.phase = "done" /\ v.calls = 1 /\ ~v.zip /\ ~v.hasTerm) =>
        \A w \in Walked :
            LET rewritten == { key \in DOMAIN w.in.p : w.out.p[key] # w.in.p[key] }
            IN  \A key \in rewritten :
                    /\ "changes" \in DOMAIN w.slot
                    /\ \E digest \in DOMAIN w.slot["changes"] :
                          /\ w.slot["changes"][digest].field = key
                          /\ w.slot["changes"][digest].original = w.in.p[key]
                          /\ w.slot["changes"][digest].resolved = w.out.p[key]

====
